---- MODULE Spec2Model ----
(***************************************************************************)
(* rlog.Writer (Config variant): a buffered, rotating log writer.          *)
(*                                                                         *)
(* The model follows the code one system call at a time.  Every process    *)
(* owns one Writer (mutex, latched error, buffer, file handle, background  *)
(* age-trigger goroutine); the processes share one directory (latest.log,  *)
(* the rotated files, .rotate.lock).  A call takes the mutex, runs the     *)
(* code up to its next system call, and each further step is one system    *)
(* call together with the pure code that follows it.                       *)
(*                                                                         *)
(* Bytes are tagged <<process, index of the call, length of the payload>>, *)
(* so that a lost, duplicated, reordered or interleaved byte shows.        *)
(* Rotated files are kept in rotation order: the time stamps of successive *)
(* rotations are taken to be distinct and increasing.                      *)
(***************************************************************************)
EXTENDS Naturals, Integers, Sequences, FiniteSets, TLC

\* ------------------------------------------------------------------ bounds
NumProcs == 2        \* processes that may share the directory
MaxOps == 4          \* calls serialized on one Writer in a run
MaxLen == 4          \* longest payload of a Write
MaxFileCfg == 5      \* the MaxFileSize the runs configure
MaxBufCfg == 3       \* the MaxBufSize the runs configure

\* ------------------------------------------------------- program constants
DefaultMaxFileSize == 268435456
DefaultMaxBufSize == 4096
DefaultMaxBufAge == 15

VARIABLES
  inodes,      \* the files: inode number -> [data, synced]
  latest,      \* inode named latest.log, 0 when no such name exists
  rotated,     \* inodes of the <timestamp>.log files, in rotation order
  rotLock,     \* process holding the flock on .rotate.lock, 0 when free
  cfg,         \* Writer.cfg
  err,         \* Writer.err, Nil when no error is latched
  buf,         \* Writer.buf
  file,        \* Writer.file: [st: "nil" | "open" | "closed", ino]
  mu,          \* Writer.mu: TRUE while a call holds it
  ageChan,     \* Writer.closeAgeTrigger: "nil" or "chan"
  chanClosed,  \* whether the channel made by NewWriter has been closed
  bg,          \* the age-trigger goroutine
  cur,         \* the call holding the mutex and its position in the code
  last,        \* the call that returned last, with what it returned
  hist,        \* the calls in the order the mutex serialized them
  accepted,    \* payloads of the Writes that returned success, concatenated
  dir,         \* what the path of the log directory names: "absent", "dir", "file"
  ctor,        \* the constructor call of each process and what it returned
  lg           \* the xlog.Logger built on the Writer of process 1

fsvars == <<inodes, latest, rotated, rotLock>>
wvars == <<cfg, err, buf, file, mu, ageChan, chanClosed, bg>>
cvars == <<cur, last, hist, accepted>>
xvars == <<dir, ctor, lg>>
vars == <<inodes, latest, rotated, rotLock, cfg, err, buf, file, mu,
          ageChan, chanClosed, bg, cur, last, hist, accepted, dir, ctor, lg>>

Procs == 1..NumProcs
Callers == {1, 2}     \* the goroutines that call one Writer concurrently
BgThread == 0

\* ------------------------------------------------------------------ errors
\* An error value is the sequence of its message parts; fmt.Errorf("m: %v", e)
\* makes a new value out of e.
Nil == <<>>
Wrap(msg, e) == <<msg>> \o e
ENOENT == <<"no such file or directory">>
ErrClosed == <<"file already closed">>
ErrInvalid == <<"invalid argument">>
EIO == <<"input/output error">>

\* What a system call does in a step: "ok", or the fault injected into it.
NoFault == {"ok"}
AnyFault == {"ok", "fault"}

\* ------------------------------------------------------------------- bytes
Payload(p, k, n) == [i \in 1..n |-> <<p, k, n>>]

RECURSIVE Concat(_)
Concat(ss) == IF ss = <<>> THEN <<>> ELSE Head(ss) \o Concat(Tail(ss))

Data(i) == inodes[i].data
Synced(i) == SubSeq(inodes[i].data, 1, inodes[i].synced)
LatestData == IF latest = 0 THEN <<>> ELSE Data(latest)
RotatedData == [j \in 1..Len(rotated) |-> Data(rotated[j])]
\* Everything on disk, oldest first.
DiskData == Concat(RotatedData) \o LatestData
DiskSynced ==
  Concat([j \in 1..Len(rotated) |-> Synced(rotated[j])])
    \o (IF latest = 0 THEN <<>> ELSE Synced(latest))

\* ------------------------------------------------------------ construction
NoCall == [t |-> 0, op |-> "none", n |-> 0, k |-> 0, pc |-> "idle",
           path |-> "none", li |-> 0]
NoFile == [st |-> "nil", ino |-> 0]
NoCfg == [MaxFileSize |-> 0, MaxBufSize |-> 0, MaxBufAge |-> 0]

\* The one directory path the runs use, and the empty path.
LogDir == "logs"
DirPaths == {"", LogDir}

\* A constructor call: fn is "NewWriter" (Config variant) or "New" (option
\* variant), req what it was called with, pc the system call it is at, w and
\* re the *Writer ("nil" or "writer") and the error it returned.
Request(d, c) == [DirPath |-> d, MaxFileSize |-> c.MaxFileSize,
                  MaxBufSize |-> c.MaxBufSize, MaxBufAge |-> c.MaxBufAge]
NoCtor == [fn |-> "none", req |-> Request("", NoCfg), pc |-> "idle", w |-> "nil",
           re |-> Nil]
Made(fn, r) == [fn |-> fn, req |-> r, pc |-> "done", w |-> "writer", re |-> Nil]

\* No Logger has been made.
NoLogger == [made |-> FALSE]

\* Mutant of WithDefaults: a negative MaxBufAge gets the default as well.
WithDefaultsNonPositive(c) ==
  [MaxFileSize |-> IF c.MaxFileSize <= 0 THEN DefaultMaxFileSize ELSE c.MaxFileSize,
   MaxBufSize |-> IF c.MaxBufSize <= 0 THEN DefaultMaxBufSize ELSE c.MaxBufSize,
   MaxBufAge |-> IF c.MaxBufAge <= 0 THEN DefaultMaxBufAge ELSE c.MaxBufAge]

\* NewWriter's defaults.
WithDefaults(c) ==
  [MaxFileSize |-> IF c.MaxFileSize <= 0 THEN DefaultMaxFileSize ELSE c.MaxFileSize,
   MaxBufSize |-> IF c.MaxBufSize <= 0 THEN DefaultMaxBufSize ELSE c.MaxBufSize,
   MaxBufAge |-> IF c.MaxBufAge = 0 THEN DefaultMaxBufAge ELSE c.MaxBufAge]

\* The configurations the runs construct Writers with.
SmallCfgs == {[MaxFileSize |-> MaxFileCfg, MaxBufSize |-> MaxBufCfg, MaxBufAge |-> a] :
                a \in {-1, 0}}
DefaultCfgs == {[MaxFileSize |-> 0, MaxBufSize |-> 0, MaxBufAge |-> -1]}

\* The state after the processes of A have each run NewWriter(c) on a fresh
\* directory: MkdirAll, latest.log opened with O_CREATE|O_APPEND, the
\* goroutine started when MaxBufAge > 0.
InitWriters(A, Cfgs) ==
  /\ inodes = <<[data |-> <<>>, synced |-> 0]>>
  /\ latest = 1
  /\ rotated = <<>>
  /\ rotLock = 0
  /\ \E c \in Cfgs :
       /\ cfg = [p \in Procs |-> IF p \in A THEN WithDefaults(c) ELSE NoCfg]
       /\ ctor = [p \in Procs |-> IF p \in A THEN Made("NewWriter", Request(LogDir, c))
                                  ELSE NoCtor]
  /\ dir = "dir"
  /\ err = [p \in Procs |-> Nil]
  /\ buf = [p \in Procs |-> <<>>]
  /\ file = [p \in Procs |-> IF p \in A THEN [st |-> "open", ino |-> 1] ELSE NoFile]
  /\ mu = [p \in Procs |-> FALSE]
  /\ ageChan = [p \in Procs |-> IF p \in A /\ cfg[p].MaxBufAge > 0 THEN "chan" ELSE "nil"]
  /\ chanClosed = [p \in Procs |-> FALSE]
  /\ bg = [p \in Procs |-> IF p \in A /\ cfg[p].MaxBufAge > 0 THEN "select" ELSE "none"]
  /\ cur = [p \in Procs |-> NoCall]
  /\ last = [p \in Procs |-> [t |-> 0, op |-> "none", n |-> 0, k |-> 0,
                              rn |-> 0, re |-> Nil]]
  /\ hist = [p \in Procs |-> <<>>]
  /\ accepted = [p \in Procs |-> <<>>]

\* The same with no Logger on top of the Writers.
InitWith(A, Cfgs) == InitWriters(A, Cfgs) /\ lg = NoLogger

\* ------------------------------------------------------- the code's tests
\* Mutant of Latched: the test of w.err is left out.
LatchedNever(p) == FALSE

\* if w.err != nil
Latched(p) == err[p] # Nil

\* Mutant of Overflows: > for >=.
OverflowsGt(p, n) == Len(buf[p]) + n > cfg[p].MaxBufSize

\* if len(w.buf)+pLen >= w.cfg.MaxBufSize
Overflows(p, n) == Len(buf[p]) + n >= cfg[p].MaxBufSize

\* Mutant of Bypasses: > for >=.
BypassesGt(p, n) == n > cfg[p].MaxBufSize

\* if pLen >= w.cfg.MaxBufSize
Bypasses(p, n) == n >= cfg[p].MaxBufSize

\* Mutant of NeedsRotation: rotation after the size has been exceeded.
NeedsRotationAfter(p, size, len) == size >= cfg[p].MaxFileSize

\* Mutant of NeedsRotation: > for >=.
NeedsRotationGt(p, size, len) == size + len > cfg[p].MaxFileSize

\* fi.Size()+len >= MaxFileSize
NeedsRotation(p, size, len) == size + len >= cfg[p].MaxFileSize

\* Mutant of Cleared: flush leaves the buffer as it is.
ClearedNot(b) == b

\* w.buf = w.buf[:0]
Cleared(b) == <<>>

\* Mutant of Appended: w.buf = append(w.buf[:0], p...)
AppendedOnly(b, d) == d

\* w.buf = append(w.buf, p...)
Appended(b, d) == b \o d

\* Mutant of Empty: flush() without its test of the buffer's length.
EmptyNever(b) == FALSE

\* if len(w.buf) == 0
Empty(b) == b = <<>>

\* Mutant of FailCount: return pLen, err
FailCountLen(c) == c.n

\* The count a failing Write returns: return 0, err
FailCount(c) == 0

\* Mutant of FirstStep: the write comes first.
FirstStepWrite == "write"

\* The first system call of flush() with bytes to write, and of the bypass of
\* Write: the os.Stat of ensureCurrentFile.
FirstStep == "ensStatLatest"

\* ---------------------------------------------------- the caller's side
\* xlog.ErrClosed
ErrLoggerClosed == <<"logger closed">>

\* The goroutine t is inside Logger.Close or Logger.Flush, which hold closeMu
\* over their call of the Writer, or inside a logging call.
InLogger(t) == lg.made /\ t \in DOMAIN lg.pc /\ lg.pc[t] # "idle"

\* The Logger after the Writer of process 1 returned re to goroutine t inside
\* Logger.Close (l.writer = nil, the error wrapped) or Logger.Flush (the error
\* wrapped), where the deferred l.closeMu.Unlock() runs, or inside the Output
\* of a logging call, which holds no closeMu and returns nothing.
LoggerReturn(t, re) ==
  IF lg.pc[t] = "output"
  THEN [lg EXCEPT !.pc[t] = "idle", !.op[t] = "Log",
                  !.res[t] = IF re = Nil THEN "written" ELSE "failed",
                  !.n[t] = @ + 1]
  ELSE [lg EXCEPT !.pc[t] = "idle",
                  !.closeMu = 0,
                  !.writer = IF lg.pc[t] = "close" THEN "nil" ELSE @,
                  !.ret[t] = IF re = Nil THEN Nil
                             ELSE Wrap(IF lg.pc[t] = "close" THEN "failed to close rlog writer"
                                       ELSE "failed to flush rlog writer", re),
                  !.n[t] = @ + 1]

\* A step of a Writer leaves the directory path and the constructor calls as
\* they are; the step in which a call made by the Logger returns is the step
\* in which the Logger's method goes on.
XFrame ==
  /\ UNCHANGED <<dir, ctor>>
  /\ lg' = IF last'[1] # last[1] /\ InLogger(last'[1].t)
           THEN LoggerReturn(last'[1].t, last'[1].re) ELSE lg

\* ------------------------------------------------------- control transfer
\* The call c of process p goes on to the system call at pc2, holding the mutex.
Goto(p, c, pc2) ==
  /\ cur' = [cur EXCEPT ![p] = [c EXCEPT !.pc = pc2]]
  /\ mu' = [mu EXCEPT ![p] = TRUE]
  /\ bg' = [bg EXCEPT ![p] = IF c.t = BgThread THEN "flush" ELSE @]
  /\ UNCHANGED <<last, accepted>>

\* Mutant of AfterTick: the goroutine returns after its first Flush.
AfterTickOnce(p, re) == "done"

\* Mutant of AfterTick: the goroutine goes on ticking after a failed Flush.
AfterTickRetry(p, re) == IF ageChan[p] = "chan" THEN "select" ELSE "selectNil"

\* The goroutine of NewWriter after its writer.Flush() returned re: it returns
\* on an error and otherwise enters its select again, which reads
\* writer.closeAgeTrigger.
AfterTick(p, re) ==
  IF re # Nil THEN "done"
  ELSE IF ageChan[p] = "chan" THEN "select" ELSE "selectNil"

\* The call c returns (rn, re) and its deferred w.mu.Unlock() runs.
Return(p, c, rn, re) ==
  /\ cur' = [cur EXCEPT ![p] = NoCall]
  /\ mu' = [mu EXCEPT ![p] = FALSE]
  /\ last' = [last EXCEPT ![p] = [t |-> c.t, op |-> c.op, n |-> c.n, k |-> c.k,
                                  rn |-> rn, re |-> re]]
  /\ accepted' = [accepted EXCEPT ![p] =
                    IF c.op = "Write" /\ re = Nil THEN @ \o Payload(p, c.k, c.n) ELSE @]
  /\ bg' = [bg EXCEPT ![p] =
              IF c.t # BgThread THEN @ ELSE AfterTick(p, re)]

\* What follows a flush() that returned nil and left b in the buffer (or the
\* decision of Write not to flush): Flush returns, Close closes the file,
\* Write streams a payload >= MaxBufSize and buffers a smaller one.
AfterFlush(p, c, b) ==
  CASE c.op = "Flush" -> buf' = [buf EXCEPT ![p] = b] /\ Return(p, c, 0, Nil)
    [] c.op = "Close" -> buf' = [buf EXCEPT ![p] = b] /\ Goto(p, c, "fileClose")
    [] c.op = "Write" ->
         IF Bypasses(p, c.n)
         THEN buf' = [buf EXCEPT ![p] = b]
              /\ Goto(p, [c EXCEPT !.path = "bypass"], FirstStep)
         ELSE buf' = [buf EXCEPT ![p] = Appended(b, Payload(p, c.k, c.n))]
              /\ Return(p, c, c.n, Nil)

ClosedFileErr == Wrap("log file is closed", Nil)

\* Mutant of FlushEntry: flush() without its test of w.err.
FlushEntryUnchecked(p, c) ==
  IF file[p].st = "nil"
    THEN /\ err' = [err EXCEPT ![p] = ClosedFileErr]
         /\ UNCHANGED buf
         /\ Return(p, c, FailCount(c), ClosedFileErr)
  ELSE IF Empty(buf[p]) THEN UNCHANGED err /\ AfterFlush(p, c, buf[p])
  ELSE UNCHANGED <<err, buf>> /\ Goto(p, [c EXCEPT !.path = "flush"], FirstStep)

\* The head of flush(): the latched error, the nil handle, the empty buffer.
FlushEntry(p, c) ==
  IF Latched(p) THEN UNCHANGED <<err, buf>> /\ Return(p, c, FailCount(c), err[p])
  ELSE IF file[p].st = "nil"
    THEN /\ err' = [err EXCEPT ![p] = ClosedFileErr]
         /\ UNCHANGED buf
         /\ Return(p, c, FailCount(c), ClosedFileErr)
  ELSE IF Empty(buf[p]) THEN UNCHANGED err /\ AfterFlush(p, c, buf[p])
  ELSE UNCHANGED <<err, buf>> /\ Goto(p, [c EXCEPT !.path = "flush"], FirstStep)

NewCall(p, t, op, n) ==
  [t |-> t, op |-> op, n |-> n, k |-> Len(hist[p]) + 1, pc |-> "idle",
   path |-> "none", li |-> 0]

\* Mutant of Lock: the call does not wait for the mutex.
LockNoMutex(p, t, op, n) ==
  /\ cfg[p] # NoCfg
  /\ hist' = [hist EXCEPT ![p] = Append(@, [t |-> t, op |-> op, n |-> n])]

\* w.mu.Lock() of a call by thread t: the mutex is free; the call is entered
\* in the serialization order.
Lock(p, t, op, n) ==
  /\ cfg[p] # NoCfg
  /\ ~mu[p]
  /\ hist' = [hist EXCEPT ![p] = Append(@, [t |-> t, op |-> op, n |-> n])]

\* ------------------------------------------------------------------- calls
\* Writer.Write up to its first system call.
WriteBody(p, c) ==
  IF Latched(p) THEN UNCHANGED <<err, buf>> /\ Return(p, c, FailCount(c), err[p])
  ELSE IF Overflows(p, c.n) THEN FlushEntry(p, c)
  ELSE UNCHANGED err /\ AfterFlush(p, c, buf[p])

Write(p, t, n) ==
  /\ Lock(p, t, "Write", n)
  /\ WriteBody(p, NewCall(p, t, "Write", n))
  /\ UNCHANGED <<fsvars, cfg, file, ageChan, chanClosed>>
  /\ XFrame

\* Writer.Flush up to its first system call.
Flush(p, t) ==
  /\ Lock(p, t, "Flush", 0)
  /\ FlushEntry(p, NewCall(p, t, "Flush", 0))
  /\ UNCHANGED <<fsvars, cfg, file, ageChan, chanClosed>>
  /\ XFrame

\* Mutant of ClosedTrigger: Close leaves w.closeAgeTrigger as it is.
ClosedTriggerKept == "chan"

\* w.closeAgeTrigger = nil, after close(w.closeAgeTrigger).
ClosedTrigger == "nil"

\* Writer.Close up to its first system call.
CloseBody(p, c) ==
  /\ IF ageChan[p] # "nil"
     THEN /\ chanClosed' = [chanClosed EXCEPT ![p] = TRUE]
          /\ ageChan' = [ageChan EXCEPT ![p] = ClosedTrigger]
     ELSE UNCHANGED <<chanClosed, ageChan>>
  /\ IF Latched(p) \/ file[p].st = "nil"
     THEN UNCHANGED <<err, buf>> /\ Return(p, c, FailCount(c), err[p])
     ELSE FlushEntry(p, c)

Close(p, t) ==
  /\ Lock(p, t, "Close", 0)
  /\ CloseBody(p, NewCall(p, t, "Close", 0))
  /\ UNCHANGED <<fsvars, cfg, file>>
  /\ XFrame

\* Writer.Error: the latched error, read under the mutex.
Error(p, t) ==
  /\ Lock(p, t, "Error", 0)
  /\ Return(p, NewCall(p, t, "Error", 0), 0, err[p])
  /\ UNCHANGED <<fsvars, cfg, err, buf, file, ageChan, chanClosed>>
  /\ XFrame

\* The goroutine of NewWriter: the ticker fires and it calls writer.Flush().
BgFlush(p) ==
  /\ bg[p] \in {"select", "selectNil"}
  /\ Lock(p, BgThread, "Flush", 0)
  /\ FlushEntry(p, NewCall(p, BgThread, "Flush", 0))
  /\ UNCHANGED <<fsvars, cfg, file, ageChan, chanClosed>>
  /\ XFrame

\* The goroutine of NewWriter: its select receives from the closed channel.
BgStop(p) ==
  /\ bg[p] = "select"
  /\ chanClosed[p]
  /\ bg' = [bg EXCEPT ![p] = "done"]
  /\ UNCHANGED <<fsvars, cfg, err, buf, file, mu, ageChan, chanClosed, cur, last,
                 hist, accepted>>
  /\ XFrame

\* ------------------------------------------------------------ system calls
StepFrame == UNCHANGED <<cfg, ageChan, chanClosed, hist>> /\ XFrame

\* Mutant of HandleErr: a closed handle works like an open one.
HandleErrNoClosed(p, f) ==
  IF file[p].st = "nil" THEN ErrInvalid
  ELSE IF f = "fault" THEN EIO ELSE Nil

\* The error of a call on the handle w.file: a nil *os.File gives ErrInvalid,
\* a closed one ErrClosed, an open one the injected fault if there is one.
HandleErr(p, f) ==
  IF file[p].st = "nil" THEN ErrInvalid
  ELSE IF file[p].st = "closed" THEN ErrClosed
  ELSE IF f = "fault" THEN EIO ELSE Nil

\* The error of a call on the path latest.log that needs the name to exist.
PathErr(f) == IF latest = 0 THEN ENOENT ELSE IF f = "fault" THEN EIO ELSE Nil

\* os.OpenFile(latestPath, O_CREATE|O_WRONLY|O_APPEND): the directory and the
\* handle after a successful call.
OpenLatest(p) ==
  /\ inodes' = IF latest = 0 THEN Append(inodes, [data |-> <<>>, synced |-> 0]) ELSE inodes
  /\ latest' = IF latest = 0 THEN Len(inodes) + 1 ELSE latest
  /\ file' = [file EXCEPT ![p] = [st |-> "open", ino |-> latest']]

\* ensureCurrentFile returned e: flush latches it as it is, the bypass path
\* of Write returns it.
EnsFail(p, c, e) ==
  /\ err' = [err EXCEPT ![p] = IF c.path = "flush" THEN e ELSE @]
  /\ Return(p, c, FailCount(c), e)

\* ensureCurrentFile: os.Stat(w.latestPath()).
EnsStatLatest(p, f) ==
  LET c == cur[p]
      e == PathErr(f)
  IN /\ c.pc = "ensStatLatest"
     /\ IF e # Nil THEN EnsFail(p, c, e)
        ELSE UNCHANGED err /\ Goto(p, [c EXCEPT !.li = latest], "ensStatFile")
     /\ UNCHANGED <<fsvars, buf, file>>
     /\ StepFrame

\* Mutant of SameFile: the handle always passes for the file named latest.log.
SameFileAlways(p, c) == TRUE

\* os.SameFile(latestInfo, currentInfo)
SameFile(p, c) == file[p].ino = c.li

\* ensureCurrentFile: w.file.Stat() and os.SameFile.
EnsStatFile(p, f) ==
  LET c == cur[p]
      e == HandleErr(p, f)
  IN /\ c.pc = "ensStatFile"
     /\ IF e # Nil THEN EnsFail(p, c, e)
        ELSE UNCHANGED err
             /\ Goto(p, c, IF ~SameFile(p, c) THEN "ensClose" ELSE "stat")
     /\ UNCHANGED <<fsvars, buf, file>>
     /\ StepFrame

\* ensureCurrentFile: w.file.Close() of the stale handle.
EnsClose(p, f) ==
  LET c == cur[p]
      e == HandleErr(p, f)
  IN /\ c.pc = "ensClose"
     /\ file' = [file EXCEPT ![p].st = IF @ = "nil" THEN @ ELSE "closed"]
     /\ IF e # Nil THEN EnsFail(p, c, e) ELSE UNCHANGED err /\ Goto(p, c, "ensOpen")
     /\ UNCHANGED <<fsvars, buf>>
     /\ StepFrame

\* ensureCurrentFile: w.file, err = os.OpenFile(w.latestPath(), ...).
EnsOpen(p, f) ==
  LET c == cur[p]
  IN /\ c.pc = "ensOpen"
     /\ IF f = "fault"
        THEN /\ file' = [file EXCEPT ![p] = NoFile]
             /\ UNCHANGED <<inodes, latest>>
             /\ EnsFail(p, c, EIO)
        ELSE OpenLatest(p) /\ UNCHANGED err /\ Goto(p, c, "stat")
     /\ UNCHANGED <<rotated, rotLock, buf>>
     /\ StepFrame

\* The bytes the call is about to write: the buffer in flush, p in the bypass.
Pending(p, c) == IF c.path = "flush" THEN buf[p] ELSE Payload(p, c.k, c.n)

StatMsg(c) == IF c.path = "flush" THEN "failed to stat log file" ELSE "stat log file"
WriteMsg(c) == IF c.path = "flush" THEN "failed to write to log file" ELSE "write log file"
SyncMsg(c) == IF c.path = "flush" THEN "failed to sync log file" ELSE "sync log file"

\* w.file.Stat() and the size projection, in flush and in the bypass of Write.
FileStat(p, f) ==
  LET c == cur[p]
      e == HandleErr(p, f)
  IN /\ c.pc = "stat"
     /\ IF e # Nil
        THEN /\ err' = [err EXCEPT ![p] = Wrap(StatMsg(c), e)]
             /\ Return(p, c, FailCount(c), Wrap(StatMsg(c), e))
        ELSE /\ UNCHANGED err
             /\ Goto(p, c, IF NeedsRotation(p, Len(Data(file[p].ino)), Len(Pending(p, c)))
                           THEN "rotLock" ELSE "write")
     /\ UNCHANGED <<fsvars, buf, file>>
     /\ StepFrame

\* Mutant of FlockGranted: LOCK_EX is granted whoever holds the lock.
FlockNoWait(p) == TRUE

\* syscall.Flock(fd, LOCK_EX) returns once no other open file description
\* holds the lock on .rotate.lock.
FlockGranted(p) == rotLock = 0

\* Mutant of RotateFail: rotate returns its error without setting w.err.
RotateFailUnlatched(p, c, we, e) == UNCHANGED err /\ Return(p, c, FailCount(c), e)

\* A step of rotate fails: w.err is set to we, rotate returns e and flush or
\* Write returns it.
RotateFail(p, c, we, e) ==
  /\ err' = [err EXCEPT ![p] = we]
  /\ Return(p, c, FailCount(c), e)

\* rotate: the check of w.err and acquireRotationLock (flock LOCK_EX blocks
\* while another process holds the lock).
RotLock(p, f) ==
  LET c == cur[p]
      we == Wrap("failed to acquire rotation lock", EIO)
  IN /\ c.pc = "rotLock"
     /\ IF Latched(p)
        THEN UNCHANGED <<err, rotLock>> /\ Return(p, c, FailCount(c), err[p])
        ELSE IF f = "fault"
        THEN /\ RotateFail(p, c, we, we)
             /\ UNCHANGED rotLock
        ELSE /\ FlockGranted(p)
             /\ rotLock' = p
             /\ UNCHANGED err
             /\ Goto(p, c, IF file[p].st = "nil" THEN "rotRename" ELSE "rotClose")
     /\ UNCHANGED <<inodes, latest, rotated, buf, file>>
     /\ StepFrame

\* Mutant of Unlock: rotate returns without its deferred unlock().
UnlockNever(p) == UNCHANGED rotLock

\* The deferred unlock() of rotate.
Unlock(p) == rotLock' = IF rotLock = p THEN 0 ELSE rotLock

\* rotate: w.file.Close().
RotClose(p, f) ==
  LET c == cur[p]
      e == HandleErr(p, f)
      we == Wrap("failed to close log file", e)
  IN /\ c.pc = "rotClose"
     /\ IF e # Nil
        THEN /\ RotateFail(p, c, we, we)
             /\ file' = [file EXCEPT ![p].st = "closed"]
             /\ Unlock(p)
        ELSE /\ UNCHANGED <<err, rotLock>>
             /\ file' = [file EXCEPT ![p] = NoFile]
             /\ Goto(p, c, "rotRename")
     /\ UNCHANGED <<inodes, latest, rotated, buf>>
     /\ StepFrame

\* rotate: os.Rename(latest.log, <timestamp>.log).
RotRename(p, f) ==
  LET c == cur[p]
      e == PathErr(f)
  IN /\ c.pc = "rotRename"
     /\ IF e # Nil
        THEN /\ RotateFail(p, c, Wrap("failed to rename log file", e), e)
             /\ UNCHANGED <<latest, rotated>>
             /\ Unlock(p)
        ELSE /\ UNCHANGED <<err, rotLock>>
             /\ rotated' = Append(rotated, latest)
             /\ latest' = 0
             /\ Goto(p, c, "rotOpen")
     /\ UNCHANGED <<inodes, buf, file>>
     /\ StepFrame

\* rotate: w.file, err = os.OpenFile(oldPath, ...), then the deferred unlock.
RotOpen(p, f) ==
  LET c == cur[p]
  IN /\ c.pc = "rotOpen"
     /\ IF f = "fault"
        THEN /\ RotateFail(p, c, Wrap("failed to create new log file", EIO), EIO)
             /\ file' = [file EXCEPT ![p] = NoFile]
             /\ UNCHANGED <<inodes, latest>>
        ELSE OpenLatest(p) /\ UNCHANGED err /\ Goto(p, c, "write")
     /\ Unlock(p)
     /\ UNCHANGED <<rotated, buf>>
     /\ StepFrame

\* How many bytes of d a w.file.Write(d) puts in the file: all of them, none
\* on a bad handle, a proper prefix when the write fails.
Written(p, f, d) ==
  IF file[p].st # "open" THEN {0}
  ELSE IF f = "fault" THEN 0..(Len(d) - 1) ELSE {Len(d)}

\* w.file.Write(w.buf) in flush, w.file.Write(p) in the bypass of Write.
FileWrite(p, f) ==
  LET c == cur[p]
      e == HandleErr(p, f)
      d == Pending(p, c)
  IN /\ c.pc = "write"
     /\ \E j \in Written(p, f, d) :
          inodes' = IF j = 0 THEN inodes
                    ELSE [inodes EXCEPT ![file[p].ino].data = @ \o SubSeq(d, 1, j)]
     /\ IF e # Nil
        THEN /\ err' = [err EXCEPT ![p] = Wrap(WriteMsg(c), e)]
             /\ Return(p, c, FailCount(c), Wrap(WriteMsg(c), e))
        ELSE UNCHANGED err /\ Goto(p, c, "sync")
     /\ UNCHANGED <<latest, rotated, rotLock, buf, file>>
     /\ StepFrame

\* Mutant of SyncedTo: the sync reaches none of the bytes written since the last.
SyncedToOld(i) == inodes[i].synced

\* How far the content of inode i is on stable storage after a successful
\* w.file.Sync().
SyncedTo(i) == Len(Data(i))

\* w.file.Sync(); flush then clears the buffer, the bypass returns len(p).
FileSync(p, f) ==
  LET c == cur[p]
      e == HandleErr(p, f)
  IN /\ c.pc = "sync"
     /\ IF e # Nil
        THEN /\ err' = [err EXCEPT ![p] = Wrap(SyncMsg(c), e)]
             /\ UNCHANGED <<inodes, buf>>
             /\ Return(p, c, FailCount(c), Wrap(SyncMsg(c), e))
        ELSE /\ UNCHANGED err
             /\ inodes' = [inodes EXCEPT ![file[p].ino].synced = SyncedTo(file[p].ino)]
             /\ IF c.path = "flush" THEN AfterFlush(p, c, Cleared(buf[p]))
                ELSE UNCHANGED buf /\ Return(p, c, c.n, Nil)
     /\ UNCHANGED <<latest, rotated, rotLock, file>>
     /\ StepFrame

\* Close: return w.file.Close().
FileClose(p, f) ==
  LET c == cur[p]
      e == HandleErr(p, f)
  IN /\ c.pc = "fileClose"
     /\ file' = [file EXCEPT ![p].st = IF @ = "nil" THEN @ ELSE "closed"]
     /\ Return(p, c, 0, e)
     /\ UNCHANGED <<fsvars, err, buf>>
     /\ StepFrame

\* ---------------------------------------------------------- specifications
\* The system calls one process reaches when no other process shares the
\* directory.
Syscall(p, f) ==
  \/ EnsStatLatest(p, f)
  \/ EnsStatFile(p, f)
  \/ FileStat(p, f)
  \/ RotLock(p, f)
  \/ RotClose(p, f)
  \/ RotRename(p, f)
  \/ RotOpen(p, f)
  \/ FileWrite(p, f)
  \/ FileSync(p, f)
  \/ FileClose(p, f)

Lens == 0..MaxLen

\* The run goes on while fewer than m calls took the mutex of p.
Budget(p, m) == Len(hist[p]) < m

\* One process, one caller and the age-trigger goroutine, no I/O fault.
Init == InitWith({1}, SmallCfgs \cup DefaultCfgs)

Next ==
  \/ Budget(1, MaxOps) /\ \E n \in Lens : Write(1, 1, n)
  \/ Budget(1, MaxOps) /\ Flush(1, 1)
  \/ Budget(1, MaxOps) /\ Close(1, 1)
  \/ Budget(1, MaxOps) /\ BgFlush(1)
  \/ BgStop(1)
  \/ Syscall(1, "ok")

Spec == Init /\ [][Next]_vars

\* The same process with a fault injected into any of its system calls.
NextFault ==
  \/ Budget(1, MaxOps) /\ \E n \in Lens : Write(1, 1, n)
  \/ Budget(1, MaxOps) /\ Flush(1, 1)
  \/ Budget(1, MaxOps) /\ Close(1, 1)
  \/ Budget(1, MaxOps) /\ BgFlush(1)
  \/ BgStop(1)
  \/ \E f \in AnyFault : Syscall(1, f)

InitFault == InitWith({1}, SmallCfgs)

SpecFault == InitFault /\ [][NextFault]_vars

\* ------------------------------------------------------------ observations
Idle(p) == cur[p].op = "none"
IsWrite(p, i) == hist[p][i].op = "Write"
Writes(p) == {i \in 1..Len(hist[p]) : IsWrite(p, i)}

\* ------------------------------------------------- the concurrent callers
\* TestConcurrentWrites: the goroutines of Callers each make WritesPerCaller
\* Writes of one message on one Writer; when all have returned the main
\* goroutine calls Flush.  The age-trigger goroutine (the test leaves
\* MaxBufAge at its default) ticks at most once in between.
WritesPerCaller == 3

ConcCfgs == {[MaxFileSize |-> 0, MaxBufSize |-> MaxBufCfg, MaxBufAge |-> 0]}
WritesBy(t) == Cardinality({i \in Writes(1) : hist[1][i].t = t})
FlushesBy(t) == Cardinality({i \in 1..Len(hist[1]) :
                              hist[1][i].op = "Flush" /\ hist[1][i].t = t})
SameLength(n) == \A i \in Writes(1) : hist[1][i].n = n
AllDone == \A t \in Callers : WritesBy(t) = WritesPerCaller
FinalFlushed == FlushesBy(1) > 0

\* The system calls of a run in which nothing rotates and nobody closes.
SyscallPlain(p, f) ==
  \/ EnsStatLatest(p, f)
  \/ EnsStatFile(p, f)
  \/ FileStat(p, f)
  \/ FileWrite(p, f)
  \/ FileSync(p, f)

InitConc == InitWith({1}, ConcCfgs)

NextConc ==
  \/ \E t \in Callers : \E n \in 1..MaxBufCfg :
       WritesBy(t) < WritesPerCaller /\ SameLength(n) /\ Write(1, t, n)
  \/ AllDone /\ ~FinalFlushed /\ Flush(1, 1)
  \/ FlushesBy(BgThread) = 0 /\ BgFlush(1)
  \/ SyscallPlain(1, "ok")

SpecConc == InitConc /\ [][NextConc]_vars

\* ------------------------------------------------- callers of every method
\* The goroutines of Callers and the age-trigger goroutine call Write, Flush,
\* Close and Error on one Writer in any order and at any time.
InitCallers == InitWith({1}, SmallCfgs)

NextCallers ==
  \/ \E t \in Callers : Budget(1, MaxOps) /\ \E n \in {1, MaxLen} : Write(1, t, n)
  \/ \E t \in Callers : Budget(1, MaxOps) /\ Flush(1, t)
  \/ \E t \in Callers : Budget(1, MaxOps) /\ Close(1, t)
  \/ \E t \in Callers : Budget(1, MaxOps) /\ Error(1, t)
  \/ Budget(1, MaxOps) /\ BgFlush(1)
  \/ BgStop(1)
  \/ Syscall(1, "ok")

SpecCallers == InitCallers /\ [][NextCallers]_vars

\* ------------------------------------------- processes sharing a directory
\* Every process of Procs runs one Writer on the same directory (the README's
\* "multiple processes may safely share the same directory"), each with one
\* caller making up to MaxSharedOps calls, and no I/O fault.
MaxSharedOps == 2

SharedCfgs == {[MaxFileSize |-> MaxFileCfg, MaxBufSize |-> MaxBufCfg, MaxBufAge |-> -1]}

\* The system calls of Write and Flush when another process may have rotated.
SyscallShared(p, f) ==
  \/ EnsStatLatest(p, f)
  \/ EnsStatFile(p, f)
  \/ EnsClose(p, f)
  \/ EnsOpen(p, f)
  \/ FileStat(p, f)
  \/ RotLock(p, f)
  \/ RotClose(p, f)
  \/ RotRename(p, f)
  \/ RotOpen(p, f)
  \/ FileWrite(p, f)
  \/ FileSync(p, f)

InitShared == InitWith(Procs, SharedCfgs)

NextShared ==
  \/ \E p \in Procs : Budget(p, MaxSharedOps) /\ \E n \in Lens : Write(p, 1, n)
  \/ \E p \in Procs : Budget(p, MaxSharedOps) /\ Flush(p, 1)
  \/ \E p \in Procs : SyscallShared(p, "ok")

SpecShared == InitShared /\ [][NextShared]_vars

\* Contention for the rotation lock: MaxFileSize is 1 and every process makes
\* one Write that bypasses the buffer, so that every Write rotates.
ContendCfgs == {[MaxFileSize |-> 1, MaxBufSize |-> MaxBufCfg, MaxBufAge |-> -1]}

InitContend == InitWith(Procs, ContendCfgs)

NextContend ==
  \/ \E p \in Procs : Budget(p, 1) /\ \E n \in MaxBufCfg..MaxLen : Write(p, 1, n)
  \/ \E p \in Procs : SyscallShared(p, "ok")

SpecContend == InitContend /\ [][NextContend]_vars

\* Processes sharing the directory that also Close their Writers, with the
\* one fault that leaves a Writer without a handle: the os.OpenFile by which
\* ensureCurrentFile reopens latest.log after another process rotated.
InitReopen == InitWith(Procs, ContendCfgs)

NextReopen ==
  \/ \E p \in Procs : Budget(p, MaxSharedOps + 1) /\ \E n \in {1, MaxBufCfg} : Write(p, 1, n)
  \/ \E p \in Procs : Budget(p, MaxSharedOps + 1) /\ Flush(p, 1)
  \/ \E p \in Procs : Budget(p, MaxSharedOps + 1) /\ Close(p, 1)
  \/ \E p \in Procs : SyscallShared(p, "ok")
  \/ \E p \in Procs : FileClose(p, "ok")
  \/ \E p \in Procs : EnsOpen(p, "fault")

SpecReopen == InitReopen /\ [][NextReopen]_vars

\* The process is inside rotate(), past acquireRotationLock.
InRotate(p) == cur[p].pc \in {"rotClose", "rotRename", "rotOpen"}

\* A Close of p took the mutex before the k-th call of p did.
ClosedBefore(p, k) == \E i \in 1..(k - 1) : hist[p][i].op = "Close"

\* The payloads of all Write calls made on p, in the order of the calls.
Sent(p) ==
  Concat([i \in 1..Len(hist[p]) |->
            IF IsWrite(p, i) THEN Payload(p, i, hist[p][i].n) ELSE <<>>])

\* The content of every file (named or not) and the buffer hold no byte of
\* the k-th call of p.
InFiles(p, k) == \E i \in 1..Len(inodes) : \E j \in 1..Len(Data(i)) :
                   Data(i)[j][1] = p /\ Data(i)[j][2] = k
InBuffer(p, k) == \E j \in 1..Len(buf[p]) : buf[p][j][1] = p /\ buf[p][j][2] = k

\* ------------------------------------------------------------------ claims

\* C1: in a single process with no I/O fault, between calls, the rotated files
\* in rotation order, then latest.log, then the buffer hold exactly the
\* payloads of the successful Writes, in the order of the calls.
C1_NoByteLost == Idle(1) => DiskData \o buf[1] = accepted[1]

\* C1 witness: a rotation and a bypass happened, latest.log and the buffer
\* both hold bytes.
C1_Witness ==
  /\ Idle(1)
  /\ Len(rotated) >= 1
  /\ LatestData # <<>>
  /\ buf[1] # <<>>
  /\ \E j \in 1..Len(DiskData) : DiskData[j][3] >= cfg[1].MaxBufSize

\* The run so far is Writes below the buffer threshold, whose total is below
\* the file-size threshold, and Flushes.
SmallRun ==
  /\ \A i \in 1..Len(hist[1]) :
       /\ hist[1][i].op \in {"Write", "Flush"}
       /\ hist[1][i].n < cfg[1].MaxBufSize
  /\ Len(Sent(1)) < cfg[1].MaxFileSize

\* C2: in such a run every Write returns (len(p), nil), and after a Flush of
\* the caller latest.log holds exactly the payloads in call order.
C2_RoundTrip ==
  (Idle(1) /\ SmallRun) =>
     /\ last[1].op = "Write" => last[1].rn = last[1].n /\ last[1].re = Nil
     /\ (last[1].op = "Flush" /\ last[1].t = 1) =>
          /\ last[1].re = Nil
          /\ LatestData = Sent(1)
          /\ rotated = <<>>

\* C2 witness: three payloads, the buffer flushed by a Write on the way, then
\* the caller's Flush.
C2_Witness ==
  /\ Idle(1) /\ SmallRun
  /\ last[1].op = "Flush" /\ last[1].t = 1
  /\ Cardinality(Writes(1)) >= 3
  /\ Len(Sent(1)) > cfg[1].MaxBufSize

\* The run is Write(P1), Flush, Write(P2), Flush by the caller, with
\* len(P1) < MaxFileSize <= len(P1)+len(P2).
RotationRun ==
  /\ Idle(1)
  /\ Len(hist[1]) = 4
  /\ \A i \in 1..4 : hist[1][i].t = 1
  /\ hist[1][1].op = "Write" /\ hist[1][2].op = "Flush"
  /\ hist[1][3].op = "Write" /\ hist[1][4].op = "Flush"
  /\ hist[1][1].n < cfg[1].MaxFileSize
  /\ cfg[1].MaxFileSize <= hist[1][1].n + hist[1][3].n

\* C3: after such a run latest.log holds exactly P2 and the one rotated file
\* holds exactly P1.
C3_Rotation ==
  RotationRun =>
     /\ LatestData = Payload(1, 3, hist[1][3].n)
     /\ Len(rotated) = 1
     /\ Data(rotated[1]) = Payload(1, 1, hist[1][1].n)

\* C3 witness: such a run whose sizes meet the threshold exactly, P1 buffered.
C3_Witness ==
  /\ RotationRun
  /\ hist[1][1].n + hist[1][3].n = cfg[1].MaxFileSize
  /\ hist[1][1].n < cfg[1].MaxBufSize
  /\ hist[1][1].n > 0

\* C10: no byte of a payload >= MaxBufSize is ever in the buffer, and when
\* the Write of such a payload returns success the buffer is empty and the
\* synced content of the files is every accepted byte, p last.
C10_Bypass ==
  /\ \A j \in 1..Len(buf[1]) : buf[1][j][3] < cfg[1].MaxBufSize
  /\ (Idle(1) /\ last[1].op = "Write" /\ last[1].re = Nil
        /\ last[1].n >= cfg[1].MaxBufSize) =>
       /\ buf[1] = <<>>
       /\ DiskSynced = accepted[1]
       /\ Len(accepted[1]) >= last[1].n
       /\ SubSeq(accepted[1], Len(accepted[1]) - last[1].n + 1, Len(accepted[1]))
            = Payload(1, last[1].k, last[1].n)

\* C10 witness: a bypassing Write returned success after flushing buffered
\* bytes of an earlier Write.
C10_Witness ==
  /\ Idle(1) /\ last[1].op = "Write" /\ last[1].re = Nil
  /\ last[1].n >= cfg[1].MaxBufSize
  /\ last[1].k >= 2
  /\ hist[1][last[1].k - 1].op = "Write"
  /\ hist[1][last[1].k - 1].n \in 1..(cfg[1].MaxBufSize - 1)

\* C4: the callers' Writes never rotate, and after the final Flush
\* latest.log holds WritesPerCaller messages of every caller: each message is
\* there once, as one contiguous run of bytes.
Positions(k) == {j \in 1..Len(LatestData) : LatestData[j][2] = k}
Contiguous(S) == \A a \in S : \A b \in S : \A j \in a..b : j \in S
ConcDone == Idle(1) /\ FinalFlushed
MessageLen == hist[1][CHOOSE k \in Writes(1) : TRUE].n

C4_NoLossConcurrent ==
  /\ cur[1].pc \notin {"rotLock", "rotClose", "rotRename", "rotOpen"}
  /\ ConcDone =>
       /\ rotated = <<>>
       /\ Len(LatestData) = Cardinality(Callers) * WritesPerCaller * MessageLen
       /\ \A k \in Writes(1) :
            /\ Cardinality(Positions(k)) = hist[1][k].n
            /\ Contiguous(Positions(k))

\* C4 witness: the final Flush returned after Writes of the callers that the
\* mutex ordered alternately, with a flush of the goroutine among them.
C4_Witness ==
  /\ ConcDone
  /\ MessageLen >= 2
  /\ \E i \in Writes(1) : \E j \in Writes(1) : \E k \in Writes(1) :
       /\ i < j /\ j < k
       /\ hist[1][i].t = hist[1][k].t
       /\ hist[1][i].t # hist[1][j].t
  /\ FlushesBy(BgThread) > 0

\* C5: a Writer with a latched error is between calls, and a Write or a Flush
\* on it returns at once (0, the latched error): it makes no system call and
\* leaves the directory, the lock, the buffer, the handle and the error alone.
PoisonedCall ==
  /\ err[1] # Nil
  /\ hist'[1] # hist[1]
  /\ hist'[1][Len(hist'[1])].op \in {"Write", "Flush"}
ShortCircuit ==
  /\ cur'[1] = NoCall
  /\ last'[1].k = Len(hist'[1])
  /\ last'[1].re = err[1]
  /\ last'[1].rn = 0
  /\ UNCHANGED <<inodes, latest, rotated, rotLock, err, buf, file>>
C5_PostPoison ==
  /\ [](err[1] # Nil => Idle(1))
  /\ [][PoisonedCall => ShortCircuit]_vars

\* C5 witness: a Write that needed no flush returned the latched error while
\* bytes of earlier Writes sit in the buffer.
C5_Witness ==
  /\ Idle(1) /\ err[1] # Nil
  /\ last[1].op = "Write" /\ last[1].re = err[1]
  /\ buf[1] # <<>>
  /\ Len(buf[1]) + last[1].n < cfg[1].MaxBufSize

\* C6: once an error is latched, every step leaves that same error latched.
C6_PoisonOneWay == [][err[1] # Nil => err'[1] = err[1]]_vars

\* C6 witness: calls went on after the error was latched, a Close last.
C6_Witness ==
  /\ Idle(1) /\ err[1] # Nil
  /\ last[1].op = "Close" /\ last[1].re = err[1]
  /\ last[1].k >= 3
  /\ hist[1][last[1].k - 1].op \in {"Write", "Flush"}

\* C7: a Write or a Flush that returned an error left the Writer poisoned.
C7_EveryFailureLatches ==
  (Idle(1) /\ last[1].op \in {"Write", "Flush"} /\ last[1].re # Nil) => err[1] # Nil

\* C8: the error a Write or a Flush returned is the error Error() reports.
C8_SameError ==
  (Idle(1) /\ last[1].op \in {"Write", "Flush"} /\ last[1].re # Nil /\ err[1] # Nil)
     => last[1].re = err[1]

\* C9 as claimed: Write returns (len(p), nil) or (0, err), and after an error
\* no byte of p is in the buffer or in any file.
WriteReturned == Idle(1) /\ last[1].op = "Write"
AllOrNothingResult ==
  \/ last[1].re = Nil /\ last[1].rn = last[1].n
  \/ last[1].re # Nil /\ last[1].rn = 0
C9_AllOrNothing ==
  WriteReturned =>
     /\ AllOrNothingResult
     /\ last[1].re # Nil => ~InBuffer(1, last[1].k) /\ ~InFiles(1, last[1].k)

\* C9 amended: Write returns (len(p), nil) or (0, err); after an error no byte
\* of p is in the buffer, and bytes of p are in a file only when the error is
\* that of the bypass path's own write or sync of p.
C9_AllOrNothingAmended ==
  WriteReturned =>
     /\ AllOrNothingResult
     /\ last[1].re # Nil => ~InBuffer(1, last[1].k)
     /\ (last[1].re # Nil /\ InFiles(1, last[1].k)) =>
          last[1].re \in {Wrap("write log file", EIO), Wrap("sync log file", EIO)}

\* C9 witness: a bypassing Write returned the sync error with p in latest.log.
C9_Witness ==
  /\ WriteReturned
  /\ last[1].re = Wrap("sync log file", EIO)
  /\ last[1].rn = 0
  /\ InFiles(1, last[1].k)

\* C11: a Flush on a Writer with no latched error, an open handle and an empty
\* buffer returns nil in the step that takes the mutex: it makes no system
\* call and leaves the directory, the lock and the Writer's fields alone.
EmptyFlushCall ==
  /\ err[1] = Nil /\ file[1].st = "open" /\ buf[1] = <<>>
  /\ hist'[1] # hist[1]
  /\ hist'[1][Len(hist'[1])].op = "Flush"
NoOpReturn ==
  /\ cur'[1] = NoCall
  /\ last'[1].k = Len(hist'[1])
  /\ last'[1].re = Nil
  /\ UNCHANGED <<inodes, latest, rotated, rotLock, cfg, err, buf, file, ageChan,
                 chanClosed>>
C11_EmptyFlush == [][EmptyFlushCall => NoOpReturn]_vars

\* C11 witness: a Flush returned nil right after another Flush had emptied the
\* buffer into latest.log.
C11_Witness ==
  /\ Idle(1) /\ err[1] = Nil /\ file[1].st = "open"
  /\ last[1].op = "Flush" /\ last[1].re = Nil
  /\ last[1].k >= 3
  /\ hist[1][last[1].k - 1].op = "Flush"
  /\ hist[1][last[1].k - 2].op = "Write"
  /\ LatestData # <<>>

\* C12: when a Write or a Flush has returned success, every accepted byte
\* that is not in the buffer is in a file and covered by a successful sync,
\* and after a Flush the buffer is empty; a step takes bytes out of the buffer
\* only when they are the synced tail of latest.log.
FlushedDurably ==
  (Idle(1) /\ last[1].op \in {"Write", "Flush"} /\ last[1].re = Nil) =>
     /\ DiskSynced \o buf[1] = accepted[1]
     /\ last[1].op = "Flush" => buf[1] = <<>>
BufDropped ==
  \E j \in 1..Len(buf[1]) : j > Len(buf'[1]) \/ buf'[1][j] # buf[1][j]
SyncedTail ==
  /\ latest' # 0
  /\ LET s == SubSeq(inodes'[latest'].data, 1, inodes'[latest'].synced)
     IN /\ Len(s) >= Len(buf[1])
        /\ SubSeq(s, Len(s) - Len(buf[1]) + 1, Len(s)) = buf[1]
C12_DurableBeforeReturn ==
  /\ []FlushedDurably
  /\ [][BufDropped => SyncedTail]_vars

\* C12 witness: the second Write overflowed the buffer, flushed the first
\* payload durably and returned success with its own payload buffered.
C12_Witness ==
  /\ Idle(1) /\ last[1].op = "Write" /\ last[1].re = Nil
  /\ last[1].k = 2 /\ IsWrite(1, 1)
  /\ hist[1][1].n \in 1..(cfg[1].MaxBufSize - 1)
  /\ DiskSynced = Payload(1, 1, hist[1][1].n)
  /\ buf[1] = Payload(1, 2, last[1].n)
  /\ buf[1] # <<>>

\* C13: among the processes sharing the directory, a process that is inside
\* rotate() past acquireRotationLock (about to close its handle, to rename
\* latest.log or to re-create it) holds the rotation lock; the lock has one
\* holder, so at most one process is there at a time.
C13_RotationExclusion ==
  /\ \A p \in Procs : InRotate(p) => rotLock = p
  /\ \A p \in Procs : \A q \in Procs : (InRotate(p) /\ InRotate(q)) => p = q

\* C13 witness: one process is about to rename latest.log while another waits
\* in acquireRotationLock.
C13_Witness ==
  \E p \in Procs : \E q \in Procs :
    /\ p # q
    /\ cur[p].pc = "rotRename" /\ rotLock = p
    /\ cur[q].pc = "rotLock"

\* C14: a process holds the rotation lock only while it is inside rotate():
\* the lock is free once rotate has returned, with or without an error, and
\* when acquiring it failed.
C14_LockReleased == \A p \in Procs : rotLock = p => InRotate(p)

\* C14 witness: rotate failed at the rename and the lock is free.
C14_Witness ==
  /\ Idle(1)
  /\ err[1] = Wrap("failed to rename log file", EIO)
  /\ rotLock = 0

\* C15: with processes sharing the directory and no I/O fault, no Write or
\* Flush of any process returns an error and no Writer has a latched error.
C15_SharedSafely == \A p \in Procs : last[p].re = Nil /\ err[p] = Nil

\* C16: a file that has been renamed to a timestamped name keeps its name and
\* its content in every later step.
C16_RotatedImmutable ==
  [][\A j \in 1..Len(rotated) :
       /\ j <= Len(rotated')
       /\ rotated'[j] = rotated[j]
       /\ inodes'[rotated[j]].data = inodes[rotated[j]].data]_vars

\* C17: a Write or a Flush called after a Close returns an error, and none of
\* its bytes is in the buffer or in a file.
C17_ClosedTerminal ==
  (Idle(1) /\ last[1].op \in {"Write", "Flush"} /\ ClosedBefore(1, last[1].k)) =>
     /\ last[1].re # Nil
     /\ ~InBuffer(1, last[1].k)
     /\ ~InFiles(1, last[1].k)

\* C18: when a Close has returned nil, the buffer is empty, every byte the
\* Writes of the process accepted is in a file of the directory, and the
\* process holds no open handle.
C18_CloseFlushes ==
  \A p \in Procs :
    (Idle(p) /\ last[p].op = "Close" /\ last[p].re = Nil) =>
       /\ buf[p] = <<>>
       /\ file[p].st # "open"
       /\ \A k \in Writes(p) :
            (\E j \in 1..Len(accepted[p]) : accepted[p][j][2] = k) => InFiles(p, k)

\* C19: no step of a Close that follows another Close writes or syncs a byte,
\* renames or creates a file, or changes the state of the handle; such a Close
\* returns an error (the latched one, or that of the closed handle).
RepeatedClose ==
  \/ /\ Idle(1)
     /\ ClosedBefore(1, Len(hist[1]) + 1)
     /\ hist'[1] # hist[1]
     /\ hist'[1][Len(hist'[1])].op = "Close"
  \/ cur[1].op = "Close" /\ ClosedBefore(1, cur[1].k)
C20_CloseStopsTask ==
  [][(Idle(1) /\ ClosedBefore(1, Len(hist[1]) + 1) /\ hist'[1] # hist[1])
       => hist'[1][Len(hist'[1])].t # BgThread]_vars

\* C21: once a Close has returned, a goroutine that is still alive and waiting
\* in its select can stop: its select waits on the closed channel, or the
\* Flush of its next tick returns an error (a latched error, a missing handle,
\* or bytes to flush through the closed handle).
CloseReturned(p) == ClosedBefore(p, Len(hist[p]) + 1) /\ (Idle(p) \/ cur[p].op # "Close")
TaskWaiting(p) == bg[p] \in {"select", "selectNil"}
NextTickFails(p) ==
  \/ err[p] # Nil
  \/ file[p].st = "nil"
  \/ (buf[p] # <<>> /\ file[p].st = "closed")
C21_TaskTerminates ==
  (Idle(1) /\ CloseReturned(1) /\ TaskWaiting(1)) =>
     \/ bg[1] = "select" /\ chanClosed[1]
     \/ NextTickFails(1)

\* C22: when a Flush called by the goroutine returns an error the goroutine
\* is done, and a goroutine that is done stays done and calls nothing.
BgFlushReturned ==
  /\ cur[1].t = BgThread /\ cur[1].op = "Flush"
  /\ cur'[1] = NoCall
BgFlushEntered ==
  /\ hist'[1] # hist[1]
  /\ hist'[1][Len(hist'[1])].t = BgThread
  /\ cur'[1] = NoCall
BgFlushFailed == (BgFlushReturned \/ BgFlushEntered) /\ last'[1].re # Nil
C22_FailureStopsTask ==
  /\ [][BgFlushFailed => bg'[1] = "done"]_vars
  /\ [][bg[1] = "done" =>
         /\ bg'[1] = "done"
         /\ hist'[1] # hist[1] => hist'[1][Len(hist'[1])].t # BgThread]_vars

\* C22 witness: the goroutine's Flush returned the error latched by a caller's
\* Write, the goroutine is done, and the caller made a call afterwards.
C22_Witness ==
  /\ Idle(1) /\ bg[1] = "done" /\ ~chanClosed[1]
  /\ err[1] # Nil
  /\ \E i \in 2..(Len(hist[1]) - 1) :
       /\ hist[1][i].t = BgThread
       /\ hist[1][i - 1].op = "Write"
       /\ hist[1][i + 1].t = 1

\* C25: the mutex is held exactly while a call executes its body, a call
\* begins its body only when no call is executing one, and the buffer, the
\* handle and the latched error change only in steps of the call holding the
\* mutex.
BodyEntered == hist'[1] # hist[1]
BodyStep == cur[1].op # "none" /\ mu[1]
C25_Serialized ==
  /\ [](mu[1] <=> ~Idle(1))
  /\ [][BodyEntered => (Idle(1) /\ ~mu[1])]_vars
  /\ [][(buf'[1] # buf[1] \/ file'[1] # file[1] \/ err'[1] # err[1] \/ inodes' # inodes)
        => (BodyEntered \/ BodyStep)]_vars

\* C25 witness: a caller's Write is at its w.file.Sync() after both callers
\* and the goroutine have made calls, an Error among them.
C25_Witness ==
  /\ cur[1].op = "Write" /\ cur[1].pc = "sync" /\ mu[1]
  /\ {hist[1][i].t : i \in 1..(Len(hist[1]) - 1)} = {BgThread} \cup Callers
  /\ \E i \in 1..Len(hist[1]) : hist[1][i].op = "Error"

\* C28: within one flush and within one bypass the system calls come in the
\* order drift check, size check, rotation, write, sync; each begins with the
\* drift check; file content changes only at the write and sync state only at
\* the sync; and a call that goes on to a later step has met no failure.
Rank(pc) ==
  CASE pc = "ensStatLatest" -> 1
    [] pc = "ensStatFile" -> 2
    [] pc = "ensClose" -> 3
    [] pc = "ensOpen" -> 4
    [] pc = "stat" -> 5
    [] pc = "rotLock" -> 6
    [] pc = "rotClose" -> 7
    [] pc = "rotRename" -> 8
    [] pc = "rotOpen" -> 9
    [] pc = "write" -> 10
    [] pc = "sync" -> 11
    [] OTHER -> 12
SamePass ==
  /\ cur[1].op # "none" /\ cur'[1].op # "none"
  /\ cur'[1] # cur[1]
  /\ cur'[1].path = cur[1].path
NewPass ==
  /\ cur'[1].op # "none"
  /\ cur'[1].path # cur[1].path
StepsInOrder == SamePass => Rank(cur'[1].pc) > Rank(cur[1].pc)
PassFromStart ==
  NewPass =>
    /\ cur'[1].pc = "ensStatLatest"
    /\ cur[1].op = "none" \/ (cur[1].path = "flush" /\ cur[1].pc = "sync")
WriteAtWrite ==
  /\ (\E i \in 1..Len(inodes) : inodes'[i].data # inodes[i].data) => cur[1].pc = "write"
  /\ (\E i \in 1..Len(inodes) : inodes'[i].synced # inodes[i].synced) => cur[1].pc = "sync"
NoStepAfterFailure ==
  (cur[1].op # "none" /\ cur'[1].op # "none") => (err'[1] = Nil /\ last'[1] = last[1])
C28_StepOrder ==
  [][StepsInOrder /\ PassFromStart /\ WriteAtWrite /\ NoStepAfterFailure]_vars

\* C28 witness: a Write flushed the buffer and then bypassed it, rotating on
\* the way, and returned success.
C28_Witness ==
  /\ Idle(1) /\ last[1].op = "Write" /\ last[1].re = Nil
  /\ last[1].n >= cfg[1].MaxBufSize
  /\ last[1].k >= 2 /\ IsWrite(1, last[1].k - 1)
  /\ hist[1][last[1].k - 1].n \in 1..(cfg[1].MaxBufSize - 1)
  /\ Len(rotated) = 1
  /\ LatestData = Payload(1, last[1].k, last[1].n)

\* C29: the step that measures the file decides for rotation exactly when the
\* size of the active file plus the bytes about to be written is at least
\* MaxFileSize, and it writes nothing; rotate is entered only by that
\* decision and a file is renamed only inside rotate.
Projection == Len(inodes[file[1].ino].data) + Len(Pending(1, cur[1]))
SizeChecked == cur[1].pc = "stat" /\ cur'[1].op # "none" /\ cur'[1] # cur[1]
DecidedBySize ==
  SizeChecked =>
    /\ cur'[1].pc = "rotLock" <=> Projection >= cfg[1].MaxFileSize
    /\ cur'[1].pc = "write" <=> Projection < cfg[1].MaxFileSize
    /\ UNCHANGED <<inodes, latest, rotated>>
RotationDecided ==
  /\ (cur'[1].pc = "rotLock" /\ cur[1].pc # "rotLock") => cur[1].pc = "stat"
  /\ rotated' # rotated => cur[1].pc = "rotRename"
C29_PreemptiveRotation == [][DecidedBySize /\ RotationDecided]_vars

\* C29 witness: rotate was entered with the projection exactly at MaxFileSize,
\* the bytes still unwritten, after an earlier write had stayed one byte
\* below it without rotating.
C29_Witness ==
  /\ cur[1].pc = "rotLock"
  /\ Len(LatestData) + Len(Pending(1, cur[1])) = cfg[1].MaxFileSize
  /\ Len(LatestData) = cfg[1].MaxFileSize - 1
  /\ rotated = <<>>
  /\ ~InFiles(1, cur[1].k)

\* C30: between calls the buffer is shorter than MaxBufSize, after successful
\* and after failed calls alike, and the bytes of a Write are in the buffer
\* together with older ones only if all of them stay below MaxBufSize.
C30_BufferBound ==
  /\ Idle(1) => Len(buf[1]) < cfg[1].MaxBufSize
  /\ \A j \in 1..Len(buf[1]) : buf[1][j][3] < cfg[1].MaxBufSize

\* C30 witness: the buffer, filled by two Writes, is one byte short of
\* MaxBufSize and still holds them after a failed flush latched its error.
C30_Witness ==
  /\ Idle(1) /\ err[1] # Nil
  /\ Len(buf[1]) = cfg[1].MaxBufSize - 1
  /\ buf[1][1][2] # buf[1][Len(buf[1])][2]

\* ------------------------------------------------------------ constructors
\* Mutant of NoDirPath: NewWriter without its test of cfg.DirPath.
NoDirPathNever(c) == FALSE

\* if cfg.DirPath == ""
NoDirPath(c) == c.DirPath = ""

\* d := writer.cfg.MaxBufAge; if d > 0
StartsTask(c) == c.MaxBufAge > 0

\* What a constructor call leaves alone in every step but the one that
\* returns the Writer.
CtorFrame == UNCHANGED <<rotated, rotLock, err, buf, mu, chanClosed, cur, last, hist,
                         accepted, lg>>

\* The constructor call of p returns (nil, e).
CtorFail(p, e) ==
  ctor' = [ctor EXCEPT ![p].pc = "done", ![p].w = "nil", ![p].re = e]

\* NewWriter(c) up to its first system call: the test of DirPath.  The
\* defaults are set on a Writer that nobody else sees before it is returned.
NewWriter(p, c) ==
  /\ ctor[p].fn = "none"
  /\ ctor' = [ctor EXCEPT ![p] =
       IF NoDirPath(c)
       THEN [fn |-> "NewWriter", req |-> c, pc |-> "done", w |-> "nil",
             re |-> <<"directory path must be provided">>]
       ELSE [fn |-> "NewWriter", req |-> c, pc |-> "mkdirAll", w |-> "nil", re |-> Nil]]
  /\ UNCHANGED <<inodes, latest, cfg, file, ageChan, bg, dir>>
  /\ CtorFrame

\* The error of os.MkdirAll(d): the empty path does not exist, a path that
\* names a regular file is not a directory.
MkdirErr(d, f) ==
  IF d = "" THEN ENOENT
  ELSE IF dir = "file" THEN <<"not a directory">>
  ELSE IF f = "fault" THEN EIO ELSE Nil

\* NewWriter: os.MkdirAll(cfg.DirPath, 0o755).
MkdirAll(p, f) ==
  LET e == MkdirErr(ctor[p].req.DirPath, f)
  IN /\ ctor[p].fn = "NewWriter"
     /\ ctor[p].pc = "mkdirAll"
     /\ IF e # Nil
        THEN CtorFail(p, Wrap("failed to create log directory", e)) /\ UNCHANGED dir
        ELSE dir' = "dir" /\ ctor' = [ctor EXCEPT ![p].pc = "openFile"]
     /\ UNCHANGED <<inodes, latest, cfg, file, ageChan, bg>>
     /\ CtorFrame

\* NewWriter: os.OpenFile(writer.latestPath(), O_CREATE|O_WRONLY|O_APPEND),
\* then the goroutine is started when MaxBufAge > 0 and the Writer returned.
NewWriterOpen(p, f) ==
  LET c == WithDefaults(ctor[p].req)
  IN /\ ctor[p].fn = "NewWriter"
     /\ ctor[p].pc = "openFile"
     /\ IF f = "fault" \/ dir # "dir"
        THEN /\ CtorFail(p, EIO)
             /\ UNCHANGED <<inodes, latest, cfg, file, ageChan, bg>>
        ELSE /\ OpenLatest(p)
             /\ cfg' = [cfg EXCEPT ![p] = c]
             /\ ageChan' = [ageChan EXCEPT ![p] = IF StartsTask(c) THEN "chan" ELSE "nil"]
             /\ bg' = [bg EXCEPT ![p] = IF StartsTask(c) THEN "select" ELSE "none"]
             /\ ctor' = [ctor EXCEPT ![p].pc = "done", ![p].w = "writer"]
     /\ UNCHANGED dir
     /\ CtorFrame

\* os.Stat(dirPath) fails with an error for which os.IsNotExist holds.
Missing(d) == d = "" \/ dir = "absent"

\* Mutant of IsDir: every path that exists passes for a directory.
IsDirAlways(d) == TRUE

\* fi.IsDir()
IsDir(d) == dir = "dir"

\* The option variant: New(dirPath) up to its os.Stat.
New(p, d) ==
  /\ ctor[p].fn = "none"
  /\ ctor' = [ctor EXCEPT ![p] = [fn |-> "New", req |-> Request(d, NoCfg), pc |-> "stat",
                                  w |-> "nil", re |-> Nil]]
  /\ UNCHANGED <<inodes, latest, cfg, file, ageChan, bg, dir>>
  /\ CtorFrame

\* New: os.Stat(dirPath) and the test of fi.IsDir().
NewStat(p, f) ==
  LET d == ctor[p].req.DirPath
  IN /\ ctor[p].fn = "New"
     /\ ctor[p].pc = "stat"
     /\ IF Missing(d) THEN CtorFail(p, <<"directory does not exist">>)
        ELSE IF f = "fault" THEN CtorFail(p, EIO)
        ELSE IF ~IsDir(d) THEN CtorFail(p, <<"path is not a directory">>)
        ELSE ctor' = [ctor EXCEPT ![p].pc = "openFile"]
     /\ UNCHANGED <<inodes, latest, cfg, file, ageChan, bg, dir>>
     /\ CtorFrame

\* New: os.OpenFile(filepath.Join(w.dirPath, "latest.log"), O_CREATE|...).
\* The Writer it returns is of the option variant, whose methods are not
\* those of this model: it keeps NoCfg and takes no call.
NewOpen(p, f) ==
  /\ ctor[p].fn = "New"
  /\ ctor[p].pc = "openFile"
  /\ IF f = "fault" \/ dir # "dir"
     THEN CtorFail(p, IF dir # "dir" THEN ENOENT ELSE EIO)
          /\ UNCHANGED <<inodes, latest, file>>
     ELSE OpenLatest(p) /\ ctor' = [ctor EXCEPT ![p].pc = "done", ![p].w = "writer"]
  /\ UNCHANGED <<cfg, ageChan, bg, dir>>
  /\ CtorFrame

\* The configurations NewWriter is called with: with and without a directory
\* path, with a negative, a zero and a positive MaxBufAge.
MaxAgeCfg == 2
NewCfgs == {Request(d, [MaxFileSize |-> MaxFileCfg, MaxBufSize |-> MaxBufCfg,
                        MaxBufAge |-> a]) : d \in DirPaths, a \in {-1, 0, MaxAgeCfg}}

\* Nothing is constructed; the path of the log directory names nothing, a
\* directory or a regular file.
InitNew ==
  /\ inodes = <<>>
  /\ latest = 0
  /\ rotated = <<>>
  /\ rotLock = 0
  /\ cfg = [p \in Procs |-> NoCfg]
  /\ err = [p \in Procs |-> Nil]
  /\ buf = [p \in Procs |-> <<>>]
  /\ file = [p \in Procs |-> NoFile]
  /\ mu = [p \in Procs |-> FALSE]
  /\ ageChan = [p \in Procs |-> "nil"]
  /\ chanClosed = [p \in Procs |-> FALSE]
  /\ bg = [p \in Procs |-> "none"]
  /\ cur = [p \in Procs |-> NoCall]
  /\ last = [p \in Procs |-> [t |-> 0, op |-> "none", n |-> 0, k |-> 0,
                              rn |-> 0, re |-> Nil]]
  /\ hist = [p \in Procs |-> <<>>]
  /\ accepted = [p \in Procs |-> <<>>]
  /\ dir \in {"absent", "dir", "file"}
  /\ ctor = [p \in Procs |-> NoCtor]
  /\ lg = NoLogger

\* Every process calls one constructor once, with a fault in any of its system
\* calls; process 1 then uses the Writer NewWriter gave it, for up to
\* MaxSharedOps calls of one byte each, which do not fill a file.
NextNew ==
  \/ \E p \in Procs : \E c \in NewCfgs : NewWriter(p, c)
  \/ \E p \in Procs : \E f \in AnyFault : MkdirAll(p, f)
  \/ \E p \in Procs : \E f \in AnyFault : NewWriterOpen(p, f)
  \/ \E p \in Procs : \E d \in DirPaths : New(p, d)
  \/ \E p \in Procs : \E f \in AnyFault : NewStat(p, f)
  \/ \E p \in Procs : \E f \in AnyFault : NewOpen(p, f)
  \/ Budget(1, MaxSharedOps) /\ Write(1, 1, 1)
  \/ Budget(1, MaxSharedOps) /\ BgFlush(1)
  \/ SyscallPlain(1, "ok")

SpecNew == InitNew /\ [][NextNew]_vars

\* The step in which NewWriter returns the Writer of p.
Constructed(p) == ctor[p].fn = "NewWriter" /\ ctor[p].pc = "openFile" /\ ctor'[p].w = "writer"

\* The Writer is returned with no age-trigger goroutine.
NoTask(p) == bg'[p] = "none" /\ ageChan'[p] = "nil"

\* The Writer is returned with its goroutine started, ticking every d.
OneTask(p, d) == bg'[p] = "select" /\ ageChan'[p] = "chan" /\ cfg'[p].MaxBufAge = d

\* The goroutine of p has not called Flush.
NoTaskFlush(p) == \A i \in 1..Len(hist[p]) : hist[p][i].t # BgThread

\* C23, as stated: NewWriter with a MaxBufAge that is zero or negative returns
\* a Writer with no background task; with a positive MaxBufAge it returns one
\* with the task started and ticking at that interval.
C23_NonPositiveDisables ==
  [][\A p \in Procs : Constructed(p) =>
       IF ctor[p].req.MaxBufAge <= 0 THEN NoTask(p)
       ELSE OneTask(p, ctor[p].req.MaxBufAge)]_vars

\* C23, amended: a negative MaxBufAge gives a Writer with no background task,
\* whose buffer no goroutine ever flushes; a MaxBufAge of zero gives one with
\* the task started and ticking at the default interval; a positive MaxBufAge
\* gives one with the task started and ticking at that interval.
C23_NegativeDisables ==
  /\ [](\A p \in Procs : ctor[p].w = "writer" /\ ctor[p].req.MaxBufAge < 0 =>
          bg[p] = "none" /\ NoTaskFlush(p))
  /\ [][\A p \in Procs : Constructed(p) =>
          IF ctor[p].req.MaxBufAge < 0 THEN NoTask(p) /\ cfg'[p].MaxBufAge < 0
          ELSE IF ctor[p].req.MaxBufAge = 0 THEN OneTask(p, DefaultMaxBufAge)
          ELSE OneTask(p, ctor[p].req.MaxBufAge)]_vars

\* The goroutine of a Writer made with a MaxBufAge of zero has flushed a byte
\* to disk.
C23_Witness ==
  /\ ctor[1].w = "writer" /\ ctor[1].req.MaxBufAge = 0
  /\ \E i \in 1..Len(hist[1]) : hist[1][i].t = BgThread
  /\ LatestData # <<>>

\* The call of NewWriter by p with an empty DirPath.
EmptyPathCall(p) ==
  ctor[p].fn = "none" /\ ctor'[p].fn = "NewWriter" /\ ctor'[p].req.DirPath = ""

\* The call has returned (nil, error) and has changed nothing else.
FailedFast(p) ==
  /\ ctor'[p].pc = "done" /\ ctor'[p].w = "nil" /\ ctor'[p].re # Nil
  /\ UNCHANGED <<dir, inodes, latest, rotated, cfg, file, ageChan, bg>>

\* C24: a call of NewWriter with an empty DirPath returns a nil Writer and an
\* error in the step of the call, before any system call: the directory path,
\* the files and latest.log are as before, the process has no Writer, no
\* handle and no goroutine, then and ever after.
C24_EmptyDirPathFailsFast ==
  /\ [](\A p \in Procs : ctor[p].fn = "NewWriter" /\ ctor[p].req.DirPath = "" =>
          /\ ctor[p].pc = "done" /\ ctor[p].w = "nil" /\ ctor[p].re # Nil
          /\ cfg[p] = NoCfg /\ file[p] = NoFile /\ bg[p] = "none" /\ hist[p] = <<>>)
  /\ [][\A p \in Procs : EmptyPathCall(p) => FailedFast(p)]_vars

\* NewWriter with an empty DirPath has returned where no directory exists,
\* and none exists afterwards.
C24_Witness ==
  \E p \in Procs :
    /\ ctor[p].fn = "NewWriter" /\ ctor[p].req.DirPath = "" /\ ctor[p].pc = "done"
    /\ dir = "absent" /\ latest = 0

\* A step of the option variant's New in process p.
NewStep(p) == ctor[p].fn = "New" /\ ctor'[p] # ctor[p]

\* The os.Stat of New finds no directory at dirPath.
NotADirectory(p) ==
  ctor[p].fn = "New" /\ ctor[p].pc = "stat" /\ ctor'[p] # ctor[p]
    /\ (ctor[p].req.DirPath = "" \/ dir # "dir")

\* C27: when the path given to New does not exist or is not a directory, New
\* returns a nil Writer and an error from its os.Stat, and no directory and no
\* latest.log is created; no step of New creates the directory; a process
\* whose New failed has no handle.
C27_NewNeedsDirectory ==
  /\ [](\A p \in Procs : ctor[p].fn = "New" /\ ctor[p].w = "nil" => file[p] = NoFile)
  /\ [][\A p \in Procs :
          /\ NewStep(p) => dir' = dir
          /\ NotADirectory(p) =>
               /\ ctor'[p].pc = "done" /\ ctor'[p].w = "nil" /\ ctor'[p].re # Nil
               /\ UNCHANGED <<dir, inodes, latest, file>>]_vars

\* New has failed on a path that names nothing, and the path still names
\* nothing.
C27_Witness ==
  \E p \in Procs : /\ ctor[p].fn = "New" /\ ctor[p].pc = "done" /\ ctor[p].w = "nil"
                   /\ ctor[p].re = <<"directory does not exist">>
                   /\ ctor[p].req.DirPath = LogDir /\ dir = "absent" /\ latest = 0

\* ------------------------------------------------------------- xlog.Logger
\* The Logger of process 1: closeMu (the goroutine holding it, 0 when free),
\* the closed flag, the level, the writer field, the log.Loggers whose output
\* is the writer; and for each goroutine of Callers the method it is inside
\* (pc), the method it called last (op), the error that returned (ret), what
\* Writer() gave it last (got) and how many of its calls have returned (n).
MaxLoggerOps == 2

levelDebug == 0
levelInfo == 1
levelWarn == 2
levelError == 3
levelNone == 4
LevelNames == <<"debug", "info", "warn", "error", "none">>
ErrInvalidLogLevel == <<"invalid log level">>

\* The level strings the runs pass to SetLevel: a level and a string that
\* names none.
LevelArgs == {"error", "verbose"}

\* The switch of SetLevel: the level a name stands for, -1 for its default case.
LevelOf(name) ==
  IF \E i \in 1..Len(LevelNames) : LevelNames[i] = name
  THEN (CHOOSE i \in 1..Len(LevelNames) : LevelNames[i] = name) - 1
  ELSE -1

\* The log.Loggers SetLevel leaves writing to l.writer: those of the level
\* and above.
Outputs(level) == {v \in levelDebug..levelError : v >= level}

\* xlog.New(dirPath, name) returned a Logger and no error.
NewLogger(name) ==
  [made |-> TRUE, closeMu |-> 0, closed |-> FALSE, level |-> LevelOf(name),
   writer |-> "writer", out |-> Outputs(LevelOf(name)),
   pc |-> [t \in Callers |-> "idle"],
   op |-> [t \in Callers |-> "none"],
   ret |-> [t \in Callers |-> Nil],
   got |-> [t \in Callers |-> "none"],
   n |-> [t \in Callers |-> 0],
   lv |-> [t \in Callers |-> levelNone],
   res |-> [t \in Callers |-> "none"],
   so |-> levelDebug, arg |-> levelNone]

\* Mutant of IsClosed: the flag is never seen set.
IsClosedNever == FALSE

\* l.closed.Load() == 1
IsClosed == lg.closed

\* l.closeMu.Lock() by a goroutine that is in no method of the Logger.
LockCloseMu(t) == lg.made /\ lg.pc[t] = "idle" /\ lg.closeMu = 0 /\ lg.n[t] < MaxLoggerOps

\* The method op of goroutine t returns e (and Writer() returns w); the
\* deferred l.closeMu.Unlock() runs.
LoggerDone(l, t, op, e, w) ==
  [l EXCEPT !.pc[t] = "idle", !.closeMu = 0, !.op[t] = op, !.ret[t] = e,
            !.got[t] = w, !.n[t] = @ + 1]

\* A step of the Logger that makes no call of the Writer.
WriterFrame == UNCHANGED <<fsvars, wvars, cvars, dir, ctor>>

\* Logger.Close up to l.writer.Close().
LoggerClose(t) ==
  /\ LockCloseMu(t)
  /\ lg' = IF IsClosed THEN LoggerDone(lg, t, "Close", ErrLoggerClosed, lg.got[t])
           ELSE IF lg.writer = "nil"
           THEN LoggerDone([lg EXCEPT !.closed = TRUE, !.out = {}], t, "Close", Nil,
                           lg.got[t])
           ELSE [lg EXCEPT !.closed = TRUE, !.out = {}, !.closeMu = t,
                           !.pc[t] = "close", !.op[t] = "Close"]
  /\ WriterFrame

\* Logger.Close: err := l.writer.Close(), once the Writer's mutex is free.
LoggerCloseWriter(t) ==
  /\ lg.made /\ lg.pc[t] = "close" /\ cur[1].t # t
  /\ Close(1, t)

\* Logger.Flush up to l.writer.Flush().
LoggerFlush(t) ==
  /\ LockCloseMu(t)
  /\ lg' = IF IsClosed THEN LoggerDone(lg, t, "Flush", ErrLoggerClosed, lg.got[t])
           ELSE [lg EXCEPT !.closeMu = t, !.pc[t] = "flush", !.op[t] = "Flush"]
  /\ WriterFrame

\* Logger.Flush: l.writer.Flush(), once the Writer's mutex is free.
LoggerFlushWriter(t) ==
  /\ lg.made /\ lg.pc[t] = "flush" /\ cur[1].t # t
  /\ Flush(1, t)

\* Logger.SetLevel(name).
SetLevel(t, name) ==
  /\ LockCloseMu(t)
  /\ lg' = IF IsClosed THEN LoggerDone(lg, t, "SetLevel", ErrLoggerClosed, lg.got[t])
           ELSE IF LevelOf(name) < 0
           THEN LoggerDone(lg, t, "SetLevel", Wrap("invalid log level: " \o name,
                                                   ErrInvalidLogLevel), lg.got[t])
           ELSE LoggerDone([lg EXCEPT !.level = LevelOf(name),
                                      !.out = Outputs(LevelOf(name))],
                           t, "SetLevel", Nil, lg.got[t])
  /\ WriterFrame

\* Logger.Writer().
LoggerWriter(t) ==
  /\ LockCloseMu(t)
  /\ lg' = LoggerDone(lg, t, "Writer", lg.ret[t], IF IsClosed THEN "nil" ELSE lg.writer)
  /\ WriterFrame

\* A goroutine writes one byte to the Writer that Logger.Writer() gave it.
HandleWrite(t) ==
  /\ lg.made /\ lg.pc[t] = "idle" /\ lg.got[t] = "writer"
  /\ Budget(1, MaxSharedOps)
  /\ Write(1, t, 1)

\* xlog.New(dirPath, "info") on a fresh directory: NewWriter with nothing but
\* DirPath in its Config, so with every default and the goroutine running.
InitLogger ==
  /\ InitWriters({1}, {[MaxFileSize |-> 0, MaxBufSize |-> 0, MaxBufAge |-> 0]})
  /\ lg = NewLogger("info")

\* The goroutines of Callers call Close, Flush, SetLevel and Writer() on the
\* Logger in any order and at any time, and write to the Writer they got from
\* Writer(); the Writer's goroutine ticks; the close of the file may fail.
NextLogger ==
  \/ \E t \in Callers : LoggerClose(t)
  \/ \E t \in Callers : LoggerCloseWriter(t)
  \/ \E t \in Callers : LoggerFlush(t)
  \/ \E t \in Callers : LoggerFlushWriter(t)
  \/ \E t \in Callers : \E name \in LevelArgs : SetLevel(t, name)
  \/ \E t \in Callers : LoggerWriter(t)
  \/ \E t \in Callers : HandleWrite(t)
  \/ Budget(1, MaxSharedOps) /\ BgFlush(1)
  \/ BgStop(1)
  \/ SyscallPlain(1, "ok")
  \/ \E f \in AnyFault : FileClose(1, f)

SpecLogger == InitLogger /\ [][NextLogger]_vars

\* The calls of Close the Writer of process 1 has taken.
WriterCloses(h) == Cardinality({i \in 1..Len(h) : h[i].op = "Close"})

\* Goroutine t calls a method of the Logger in this step and finds the closed
\* flag set.
LateCall(t) == lg.closed /\ lg.pc[t] = "idle" /\ lg'.n[t] = lg.n[t] + 1

\* The call is refused: Close, SetLevel and Flush return ErrClosed and
\* Writer() returns nil; the level, the Writer and the files are as before.
Refused(t) ==
  /\ lg'.op[t] \in {"Close", "SetLevel", "Flush"} => lg'.ret[t] = ErrLoggerClosed
  /\ lg'.op[t] = "Writer" => lg'.got[t] = "nil"
  /\ lg'.level = lg.level /\ lg'.out = lg.out /\ lg'.writer = lg.writer /\ lg'.closed
  /\ UNCHANGED <<fsvars, wvars, cvars>>

\* The Close that found the flag clear returns to goroutine t in this step.
FirstCloseReturns(t) == lg.pc[t] = "close" /\ lg'.pc[t] = "idle"

\* It returns when the Writer's Close does, nil if that returned nil, and
\* that is the one Close the Writer has taken.
ClosedOnce(t) ==
  /\ last'[1].t = t /\ last'[1].op = "Close" /\ last'[1] # last[1]
  /\ last'[1].re = Nil => lg'.ret[t] = Nil
  /\ last'[1].re # Nil => lg'.ret[t] # Nil /\ lg'.ret[t] # ErrLoggerClosed
  /\ WriterCloses(hist'[1]) = 1
  /\ lg'.writer = "nil" /\ lg'.closed

\* C26: the Writer under a Logger takes at most one Close; the Logger's Close
\* that finds the Logger open calls it and returns nil when it returned nil;
\* every Close, SetLevel and Flush called once the closed flag is set returns
\* ErrClosed, and Writer() returns nil, leaving the level, the Writer and the
\* files as they were, whatever the goroutines of Callers call and when.
C26_LoggerClosedState ==
  /\ [](WriterCloses(hist[1]) <= 1)
  /\ [][\A t \in Callers : /\ LateCall(t) => Refused(t)
                           /\ FirstCloseReturns(t) => ClosedOnce(t)]_vars

\* Goroutine 1 has closed the Logger, which flushed a byte to disk and
\* returned nil; goroutine 2 has since been refused twice, last in Flush.
C26_Witness ==
  /\ lg.closed /\ lg.pc[1] = "idle" /\ lg.op[1] = "Close" /\ lg.ret[1] = Nil
  /\ LatestData # <<>>
  /\ lg.n[2] = 2 /\ lg.op[2] = "Flush" /\ lg.ret[2] = ErrLoggerClosed

\* ----------------------------------------------------- files that fill up
\* A MaxFileSize so small that single writes reach it.
TightCfgs == {[MaxFileSize |-> m, MaxBufSize |-> MaxBufCfg, MaxBufAge |-> a] :
                m \in {1, MaxBufCfg}, a \in {-1, 0}}

InitTight == InitWith({1}, TightCfgs)

\* One process, one caller and the goroutine, no I/O fault, files that fill
\* up with every write or two.
SpecTight == InitTight /\ [][Next]_vars

\* The w.file.Sync() of a flush or of a bypassing Write returns in this step.
Synced1 == cur[1].pc = "sync" /\ cur'[1].pc # "sync"

\* A step that neither writes to a file nor renames one.
NoDiskWrite == cur[1].pc \notin {"write", "rotRename"}

\* C31: in one process without I/O faults, when the write and sync of a flush
\* or of a bypassing Write have succeeded, latest.log is shorter than
\* MaxFileSize or holds exactly the bytes of that write; and latest.log is
\* the same until the next write to disk or rotation.
C31_FileSizeBound ==
  [][/\ Synced1 => \/ Len(LatestData') < cfg[1].MaxFileSize
                   \/ LatestData' = Pending(1, cur[1])
     /\ NoDiskWrite => LatestData' = LatestData]_vars

\* A Flush has returned success leaving a latest.log of MaxFileSize or more,
\* after an earlier rotation.
C31_Witness ==
  /\ Idle(1) /\ last[1].op = "Flush" /\ last[1].re = Nil /\ last[1].t = 1
  /\ Len(LatestData) >= cfg[1].MaxFileSize
  /\ Len(rotated) > 0 /\ Len(LatestData) > 1

\* The elements of a sequence.
Range(d) == {d[j] : j \in 1..Len(d)}

\* Every byte in a file, after the step.
BytesOnDisk == UNION {Range(inodes'[i].data) : i \in 1..Len(inodes')}

\* The call of process 1 is inside rotate() and returns in this step: a step
\* of rotate has failed.
RotateFails == cur[1].pc \in {"rotLock", "rotClose", "rotRename", "rotOpen"} /\ Idle(1)'

\* C32: when the lock acquisition, the close of the old handle, the rename or
\* the creation of the new latest.log fails, the operation ends in that step
\* with an error and w.err set; no file gets a byte in the step, the pending
\* bytes are in no file, the buffer is as it was; and a failed rename leaves
\* the name latest.log on the file it named, with no file created.
C32_RotateFailureLatches ==
  [][RotateFails =>
       /\ err'[1] # Nil /\ last'[1].re # Nil /\ last'[1].rn = 0
       /\ inodes' = inodes /\ buf' = buf
       /\ Range(Pending(1, cur[1])) \cap BytesOnDisk = {}
       /\ cur[1].pc = "rotRename" => latest' = latest /\ rotated' = rotated]_vars

\* A Flush with bytes pending has failed in the rename of its rotation: the
\* bytes are still buffered and latest.log still names the full file.
C32_Witness ==
  /\ Idle(1) /\ last[1].op = "Flush" /\ last[1].re = EIO
  /\ err[1] = Wrap("failed to rename log file", EIO)
  /\ buf[1] # <<>> /\ latest # 0 /\ rotated = <<>>

\* ------------------------------------------------------ the ticking goroutine
\* A Writer with a positive MaxBufAge (the default) that is never closed.
AgeCfgs == {[MaxFileSize |-> MaxFileCfg, MaxBufSize |-> MaxBufCfg, MaxBufAge |-> 0]}

InitAge == InitWith({1}, AgeCfgs)

\* The calls made on the Writer of process 1 by its callers.
CallerCalls == Cardinality({i \in 1..Len(hist[1]) : hist[1][i].t # BgThread})

\* The system calls of a Writer that is never closed.
SyscallUnclosed(p, f) ==
  \/ EnsStatLatest(p, f)
  \/ EnsStatFile(p, f)
  \/ FileStat(p, f)
  \/ RotLock(p, f)
  \/ RotClose(p, f)
  \/ RotRename(p, f)
  \/ RotOpen(p, f)
  \/ FileWrite(p, f)
  \/ FileSync(p, f)

\* The ticker fires and the goroutine takes the mutex.  Ticks that find the
\* buffer empty change nothing; the run counts them in its bound.
Tick == (buf[1] # <<>> \/ Budget(1, MaxOps)) /\ BgFlush(1)

\* The caller makes up to MaxSharedOps + 1 calls of Write and Flush and then
\* none; the goroutine goes on ticking.
NextAge ==
  \/ CallerCalls <= MaxSharedOps /\ \E n \in {1, MaxLen} : Write(1, 1, n)
  \/ CallerCalls <= MaxSharedOps /\ Flush(1, 1)
  \/ Tick
  \/ SyscallUnclosed(1, "ok")

\* The ticker keeps firing, sync.Mutex hands the mutex to a goroutine that
\* waits for it, and system calls return.
SpecAge ==
  InitAge /\ [][NextAge]_vars /\ WF_vars(Tick) /\ WF_vars(SyscallUnclosed(1, "ok"))

\* C33: with a positive MaxBufAge, no Close and no I/O fault, whenever bytes
\* are in the buffer the Writer comes to rest with an empty buffer and every
\* accepted byte written and synced, whether or not a caller calls again.
C33_AgeFlushLiveness ==
  (buf[1] # <<>>) ~> (Idle(1) /\ buf[1] = <<>> /\ DiskSynced = accepted[1])

\* The goroutine has written and synced bytes that Writes had buffered, and
\* no caller has called Flush.
C33_Witness ==
  /\ Idle(1) /\ last[1].t = BgThread /\ last[1].re = Nil
  /\ accepted[1] # <<>> /\ DiskSynced = accepted[1] /\ buf[1] = <<>>
  /\ \A i \in 1..Len(hist[1]) :
       hist[1][i].t = BgThread \/ (hist[1][i].op = "Write" /\ hist[1][i].n < MaxBufCfg)

\* ------------------------------------------------------------------- drift
\* Processes sharing the directory, making up to MaxSharedOps + 1 calls of
\* Write (buffered or bypassing) and Flush between them, on files that every
\* bypassing Write fills, so that the handles of the others go stale again
\* and again.
InitDrift == InitWith(Procs, ContendCfgs)

\* The calls made on all Writers.
TotalCalls == Cardinality(UNION {{<<p, i>> : i \in 1..Len(hist[p])} : p \in Procs})

NextDrift ==
  \/ \E p \in Procs : TotalCalls <= MaxSharedOps
                        /\ \E n \in {1, MaxBufCfg} : Write(p, 1, n)
  \/ \E p \in Procs : TotalCalls <= MaxSharedOps /\ Flush(p, 1)
  \/ \E p \in Procs : SyscallShared(p, "ok")

SpecDrift == InitDrift /\ [][NextDrift]_vars

\* The drift check of p compares its handle with the file it found under the
\* name latest.log, in this step.
DriftCompared(p) == cur[p].pc = "ensStatFile" /\ cur'[p] # cur[p]

\* p makes the system call at pc in this step.
Calls(p, pc) == cur[p].pc = pc /\ cur'[p] # cur[p]

\* p has made calls and no other process has.
Alone(p) == \A q \in Procs \ {p} : hist[q] = <<>>

\* What the drift check does when the two are the same file (nothing), and in
\* one process between operations (the handle is the file named latest.log).
DriftSame ==
  /\ [](\A p \in Procs : Alone(p) /\ Idle(p) /\ err[p] = Nil => file[p] = [st |-> "open", ino |-> latest])
  /\ [][\A p \in Procs : DriftCompared(p) /\ file[p].ino = cur[p].li =>
          file'[p] = file[p] /\ cur'[p].pc = "stat"]_vars

RetireCfgs == {[MaxFileSize |-> MaxBufCfg + 1, MaxBufSize |-> MaxBufCfg, MaxBufAge |-> -1]}

\* Processes sharing the directory, making up to MaxSharedOps + 1 bypassing
\* Writes between them.
InitRetire == InitWith(Procs, RetireCfgs)

NextRetire ==
  \/ \E p \in Procs : TotalCalls <= MaxSharedOps /\ Write(p, 1, MaxBufCfg)
  \/ \E p \in Procs : SyscallShared(p, "ok")

SpecRetire == InitRetire /\ [][NextRetire]_vars

\* p renames latest.log in this step.
Renames(p) == Calls(p, "rotRename") /\ rotated' # rotated

\* C35: rotate closes the handle whose size the process measured and renames
\* latest.log next, holding the rotation lock from before the close, so the
\* file renamed is the file measured exactly when the handle closed is the
\* file named latest.log; the file renamed is one whose size, with the bytes
\* the process is about to write, meets MaxFileSize.
C35_RotationRetiresMeasured ==
  [][\A p \in Procs :
       /\ Calls(p, "rotClose") /\ file'[p] = NoFile => file[p].ino = latest
       /\ Renames(p) =>
            NeedsRotation(p, Len(Data(latest)), Len(Pending(p, cur[p])))]_vars

\* --------------------------------------------------------------- claim C36
\* p enters a call of op in this step.
Enters(p, op) ==
  /\ Len(hist'[p]) = Len(hist[p]) + 1
  /\ hist'[p][Len(hist'[p])].op = op

\* C36: a Close that finds the latched error set returns that error at once:
\* it makes no system call, so the buffer, the file handle and the files are
\* as they were, and the latched error stays; it still closes the channel of
\* the background task when there is one and forgets it.
C36_ClosePoisoned ==
  [][\A p \in Procs : Enters(p, "Close") /\ err[p] # Nil =>
       /\ cur'[p] = NoCall
       /\ last'[p].op = "Close" /\ last'[p].re = err[p]
       /\ err'[p] = err[p] /\ buf'[p] = buf[p] /\ file'[p] = file[p]
       /\ UNCHANGED fsvars
       /\ ageChan'[p] = "nil"
       /\ chanClosed'[p] = (chanClosed[p] \/ ageChan[p] # "nil")]_vars

\* A poisoned Writer with a background task was closed: the channel is
\* closed, the buffered bytes are still in the buffer and the handle is open.
C36_Witness ==
  /\ Idle(1) /\ last[1].op = "Close" /\ last[1].re = err[1] /\ err[1] # Nil
  /\ buf[1] # <<>> /\ file[1].st = "open"
  /\ cfg[1].MaxBufAge >= 0 /\ chanClosed[1] /\ ageChan[1] = "nil"

\* --------------------------------------------------------------- claim C37
\* The Close calls entered on the Writer of p, and the threads that made them.
Closes(p) == {i \in 1..Len(hist[p]) : hist[p][i].op = "Close"}
Closers(p) == {hist[p][i].t : i \in Closes(p)}

\* C37: whenever a Close call executes close(w.closeAgeTrigger) the channel
\* has not been closed before, whichever goroutines call Close and however
\* often; a closed channel is never closed back.
C37_ShutdownSignalOnce ==
  /\ [](\A p \in Procs : chanClosed[p] => ageChan[p] = "nil")
  /\ [][\A p \in Procs :
          /\ Enters(p, "Close") /\ ageChan[p] # "nil" => ~chanClosed[p]
          /\ chanClosed[p] => chanClosed'[p]]_vars

\* Two goroutines have called Close on a Writer with a background task three
\* times or more between them, and every call has returned.
C37_Witness ==
  /\ cfg[1].MaxBufAge >= 0 /\ chanClosed[1] /\ Idle(1)
  /\ Closers(1) = Callers /\ Cardinality(Closes(1)) >= 3

\* --------------------------------------------------------------- claim C38
\* The steps that call a method of the handle w.file.
HandlePcs == {"ensStatFile", "ensClose", "stat", "rotClose", "write", "sync", "fileClose"}

\* p calls Stat, Write, Sync or Close on w.file in this step.
UsesHandle(p) == \E pc \in HandlePcs : Calls(p, pc)

\* p enters a call that goes on to use the handle when it is healthy: Flush,
\* Close, and a Write that flushes first.
EntersUse(p) ==
  \/ Enters(p, "Flush")
  \/ Enters(p, "Close")
  \/ Enters(p, "Write") /\ Overflows(p, hist'[p][Len(hist'[p])].n)

\* No call of Stat, Write, Sync or Close is made on a nil handle.
NilNeverUsed == [][\A p \in Procs : UsesHandle(p) => file[p].st # "nil"]_vars

\* A call that would use the handle and finds it nil returns an error at once.
NilReported ==
  [][\A p \in Procs : EntersUse(p) /\ file[p].st = "nil" =>
       cur'[p] = NoCall /\ last'[p].re # Nil]_vars

\* C38: no Write, Flush, Close or background flush calls Stat, Write, Sync or
\* Close on a nil handle, and a call that finds the handle nil where it would
\* use it returns an error.
C38_NoNilHandleUse == NilNeverUsed /\ NilReported

\* --------------------------------------------------------------- claim C39
\* Writers with a background task whose files every bypassing Write fills.
LiveCfgs == {[MaxFileSize |-> 1, MaxBufSize |-> MaxBufCfg, MaxBufAge |-> 0]}

\* Every process runs one Writer with its background task on the shared
\* directory; the goroutines of Callers and the tasks make up to
\* MaxSharedOps + 1 calls between them, and any system call may fail.
InitLive == InitWith(Procs, LiveCfgs)

\* A system call of process p returns, with the outcome f.
SyscallLive(p, f) == SyscallShared(p, f) \/ FileClose(p, f)

NextLive ==
  \/ \E p \in Procs, t \in Callers :
       TotalCalls <= MaxSharedOps /\ \E n \in {1, MaxBufCfg} : Write(p, t, n)
  \/ \E p \in Procs, t \in Callers : TotalCalls <= MaxSharedOps /\ Flush(p, t)
  \/ \E p \in Procs, t \in Callers : TotalCalls <= MaxSharedOps /\ Close(p, t)
  \/ \E p \in Procs : TotalCalls <= MaxSharedOps /\ BgFlush(p)
  \/ \E p \in Procs : BgStop(p)
  \/ \E p \in Procs, f \in AnyFault : SyscallLive(p, f)

\* Fair scheduling with I/O calls that return: a system call that a process
\* is waiting in, and that can return, does return.
SpecLive ==
  /\ InitLive /\ [][NextLive]_vars
  /\ \A p \in Procs : WF_vars(\E f \in AnyFault : SyscallLive(p, f))

\* C39: the rotation lock is held only by a process that holds the mutex of
\* its Writer, a process never takes the mutex while it holds the rotation
\* lock, a call that has returned has released the mutex, and every call that
\* has taken the mutex returns.
C39_DeadlockFreedom ==
  /\ [](rotLock # 0 => mu[rotLock])
  /\ [](\A p \in Procs : Idle(p) => ~mu[p])
  /\ [][\A p \in Procs : mu'[p] /\ ~mu[p] => rotLock # p]_vars
  /\ \A p \in Procs : ~Idle(p) ~> Idle(p)

\* A process waits for the rotation lock, holding its mutex, while another
\* process is inside rotate with the lock.
C39_Witness ==
  \E p, q \in Procs :
    /\ p # q /\ cur[p].pc = "rotLock" /\ mu[p] /\ ~Latched(p)
    /\ rotLock = q /\ cur[q].pc \in {"rotClose", "rotRename", "rotOpen"}

\* --------------------------------------------------------------- claim C40
\* The levels of the logging calls the runs make: Info and Error.
LogLevels == {levelInfo, levelError}

\* Mutant of Discarded: SetOutput(io.Discard) leaves the output as it is.
DiscardedNot(out, v) == out

\* The log.Loggers that write to l.writer after SetOutput(io.Discard) on the
\* one of level v.
Discarded(out, v) == out \ {v}

\* A logging call of goroutine t returns without a call of the Writer; r
\* tells what became of the line.
LogDone(l, t, r) ==
  [l EXCEPT !.pc[t] = "idle", !.op[t] = "Log", !.res[t] = r, !.n[t] = @ + 1]

\* Logger.Info, Logger.Error and the like: the l.IsClosed() of isLevelEnabled,
\* read without a lock.
LogIsClosed(t, v) ==
  /\ lg.made /\ lg.pc[t] = "idle" /\ lg.n[t] < MaxLoggerOps
  /\ lg' = IF IsClosed THEN LogDone([lg EXCEPT !.lv[t] = v], t, "discarded")
           ELSE [lg EXCEPT !.pc[t] = "level", !.lv[t] = v]
  /\ WriterFrame

\* isLevelEnabled: l.level.Load() <= uint32(level).
LogLevel(t) ==
  /\ lg.made /\ lg.pc[t] = "level"
  /\ lg' = IF lg.level <= lg.lv[t] THEN [lg EXCEPT !.pc[t] = "output"]
           ELSE LogDone(lg, t, "discarded")
  /\ WriterFrame

\* The Output of the log.Logger of the call's level: under the log.Logger's
\* mutex it writes the line to its output, l.writer or io.Discard. A line is
\* far shorter than MaxBufSize, so the Write of the Writer returns at once.
LogOutput(t) ==
  /\ lg.made /\ lg.pc[t] = "output"
  /\ IF lg.lv[t] \in lg.out
     THEN Write(1, t, 1) /\ cur'[1] = NoCall
     ELSE lg' = LogDone(lg, t, "discarded") /\ WriterFrame

\* Logger.Close: closeMu, the test of the flag and l.closed.Store(1).
CloseStore(t) ==
  /\ LockCloseMu(t)
  /\ lg' = IF IsClosed THEN LoggerDone(lg, t, "Close", ErrLoggerClosed, lg.got[t])
           ELSE [lg EXCEPT !.closed = TRUE, !.closeMu = t, !.pc[t] = "setOutput",
                           !.op[t] = "Close", !.so = levelDebug]
  /\ WriterFrame

\* Logger.Close: the next of its four SetOutput(io.Discard); l.writer.Close()
\* follows the last.
CloseSetOutput(t) ==
  /\ lg.made /\ lg.pc[t] = "setOutput"
  /\ lg' = [lg EXCEPT !.out = Discarded(@, lg.so), !.so = @ + 1,
                      !.pc[t] = IF lg.so = levelError THEN "close" ELSE @]
  /\ WriterFrame

\* Logger.SetLevel(name): closeMu, the test of the flag and the switch.
SetLevelLock(t, name) ==
  /\ LockCloseMu(t)
  /\ lg' = IF IsClosed THEN LoggerDone(lg, t, "SetLevel", ErrLoggerClosed, lg.got[t])
           ELSE IF LevelOf(name) < 0
           THEN LoggerDone(lg, t, "SetLevel", Wrap("invalid log level: " \o name,
                                                   ErrInvalidLogLevel), lg.got[t])
           ELSE [lg EXCEPT !.closeMu = t, !.pc[t] = "setLevel", !.op[t] = "SetLevel",
                           !.so = levelDebug, !.arg = LevelOf(name)]
  /\ WriterFrame

\* Logger.SetLevel: the next of its four SetOutput calls.
SetLevelOutput(t) ==
  /\ lg.made /\ lg.pc[t] = "setLevel" /\ lg.so <= levelError
  /\ lg' = [lg EXCEPT !.out = IF lg.so >= lg.arg THEN @ \cup {lg.so}
                                ELSE Discarded(@, lg.so),
                      !.so = @ + 1]
  /\ WriterFrame

\* Logger.SetLevel: l.level.Store(newLevel) and the return.
SetLevelStore(t) ==
  /\ lg.made /\ lg.pc[t] = "setLevel" /\ lg.so > levelError
  /\ lg' = LoggerDone([lg EXCEPT !.level = lg.arg], t, "SetLevel", Nil, lg.got[t])
  /\ WriterFrame

\* The goroutines of Callers make logging calls and call SetLevel and Close
\* on the Logger in any order and at any time, every atomic load and store
\* and every SetOutput a step of its own; the Writer's goroutine ticks.
NextLog ==
  \/ \E t \in Callers, v \in LogLevels : LogIsClosed(t, v)
  \/ \E t \in Callers : LogLevel(t)
  \/ \E t \in Callers : LogOutput(t)
  \/ \E t \in Callers : CloseStore(t)
  \/ \E t \in Callers : CloseSetOutput(t)
  \/ \E t \in Callers : LoggerCloseWriter(t)
  \/ \E t \in Callers, name \in LevelArgs : SetLevelLock(t, name)
  \/ \E t \in Callers : SetLevelOutput(t)
  \/ \E t \in Callers : SetLevelStore(t)
  \/ Budget(1, MaxSharedOps) /\ BgFlush(1)
  \/ BgStop(1)
  \/ SyscallPlain(1, "ok")
  \/ \E f \in AnyFault : FileClose(1, f)

SpecLog == InitLogger /\ [][NextLog]_vars

\* C40: no Write of the Writer is entered once Logger.Close has called the
\* Writer's Close; a logging call that reaches its Output either hands its
\* whole line to the Writer before that, or hands nothing to it.
C40_NoLineAfterClose ==
  [][/\ Enters(1, "Write") => Closes(1) = {}
     /\ \A t \in Callers : lg.pc[t] = "output" /\ lg'.pc[t] = "idle" =>
          \/ lg'.res[t] = "discarded" /\ hist' = hist /\ accepted' = accepted
          \/ /\ lg'.res[t] = "written" /\ Enters(1, "Write") /\ Closes(1) = {}
             /\ Len(accepted'[1]) = Len(accepted[1]) + 1]_vars

\* A logging call passed isLevelEnabled before Close set the flag and has not
\* reached its Output when Close has closed the Writer.
C40_Witness ==
  /\ lg.made /\ lg.closed /\ lg.writer = "nil" /\ Closes(1) # {}
  /\ \E t \in Callers : lg.pc[t] = "output" /\ lg.lv[t] = levelError

====
